---- MODULE Spec2Model ----
(***************************************************************************)
(* Turn scheduling (Ticket, GameState), agent isolation (NoneIsolator,     *)
(* ProcessIsolator with its agent handler processes) and the game loop     *)
(* (Game.run) of pacai, as a state machine.                                *)
(***************************************************************************)
EXTENDS Integers, Sequences, FiniteSets, TLC

(***************************************************************************)
(* Bounds of the model.                                                    *)
(***************************************************************************)
\* Number of agents; agent indexes are 0 .. NumAgents - 1.
NumAgents == 2
\* Move delays are drawn from 1 .. MaxDelay.
MaxDelay == 2
\* Fields of the tickets handed to the ticket comparison are drawn from -1 .. MaxField.
MaxField == 1
\* Fields of the tickets handed to the GameState constructor are drawn from 0 .. MaxStartField.
MaxStartField == 1
\* An unbounded game (max_turns <= 0) is followed for this many turns.
TurnCap == 3
\* The isolator's client makes at most this many calls.
MaxCalls == 4
\* The two-speed game is followed for this many turns.
ScenarioTurns == 30

Agents == 0 .. (NumAgents - 1)

\* Python's None.
None == "None"

\* The value of agent_index, and of get_next_agent_index(), when no agent is selected
\* (src/pacai/core/gamestate.py:309).
NoAgent == -1

(***************************************************************************)
(* State.                                                                  *)
(***************************************************************************)
VARIABLES
    \* Ticket comparison: the three tickets compared and the results.
    tk, cmp,
    nx,                 \* the last call of Ticket.next: its ticket, delay and result
    \* GameState.
    move_delays,        \* agent index -> move delay
    mdorder,            \* iteration order of the move_delays dict
    tickets,            \* agent index -> Ticket (a function on the tracked agents)
    torder,             \* iteration order of the tickets dict
    agent_index, last_agent_index, game_over, turn_count, score,
    kind,               \* which GameState class: core, pacman, capture, gridworld
    started,            \* GameState.game_start has been called
    sel,                \* <<v>>: get_next_agent_index() returned v on the current state
    \* The isolator (NoneIsolator or ProcessIsolator) and the agent processes.
    level,              \* the isolation level: "none" or "process"
    infos,              \* the keys of game_info.agent_infos, in dict order
    closed,             \* ProcessIsolator._closed
    procs,              \* the keys of _agent_processes (process) or _agents (none), in dict order
    msgq,               \* agent index -> contents of its message queue
    actq,               \* agent index -> contents of its action queue
    hpc,                \* agent index -> where its _agent_handler process is
    hmsg,               \* agent index -> the message its handler is working on
    call,               \* the isolator call the game thread is in
    ret,                \* what the last completed isolator call returned or raised
    sent,               \* agent index -> number of messages put on its message queue
    timedOut,           \* a read of an action queue has timed out
    ev,                 \* what the game thread did to the queues in the last step
    lastRead,           \* the last read of an action queue by the game thread
    did,                \* what the agent methods called by the last NoneIsolator call did
    seeds,              \* agent index -> the suggested_seed of its last game_start_full (0: none)
    plog,               \* agent index -> the calls the last close() made on its process
    rng,                \* number of values drawn from the generator of the game
    ncalls,             \* number of calls the isolator's client has made
    \* Game.run.
    pc,                 \* where run() is
    game_info,          \* max_turns and, for each timeout, whether it is > 0
    result,             \* the GameResult
    raised,             \* the exception run() raised, if any
    nclose,             \* number of calls of isolator.close() made by run()
    log,                \* the isolator calls run() has made and the flags of the records game_start returned
    \* Two games played one after the other from the same start.
    rp,                 \* which game is played, the decisions fed and the agents selected
    \* Conversion to and from dicts.
    cv,                 \* the object converted, the dict made of it and the object made of the dict
    \* The AgentInfo objects a game is made from.
    agent_infos,        \* agent index -> move_delay of its AgentInfo
    info_raised,        \* the exception the last call on an AgentInfo raised
    \* Boards and the objects they refer to.
    boards,             \* the Board objects: which dicts they refer to, and _is_shallow
    heap,               \* the dicts: _nonwall_objects and _agent_initial_positions objects
    bops,               \* number of calls made on the boards
    \* A PriorityQueueWithFunction and the calls made on it.
    pq,
    \* One agent behaviour handed to both isolators.
    ue,
    \* GameState objects, their copies and the turns processed on them.
    gso,
    \* The user inputs Game.run reads and hands to the agents.
    inp

gsvars == <<move_delays, mdorder, tickets, torder, agent_index, last_agent_index,
            game_over, turn_count, score, kind, started>>
\* The state but for the fields a cheating agent writes.
gsrest == <<move_delays, mdorder, tickets, torder, agent_index, last_agent_index,
            turn_count, kind, started>>
selvars == <<sel>>
tkvars == <<tk, cmp, nx>>
isovars == <<level, infos, closed, procs, msgq, actq, hpc, hmsg, call, ret, sent,
             timedOut, ev, lastRead, did, seeds, plog>>
rngvars == <<rng>>
clientvars == <<ncalls>>
runvars == <<pc, game_info, result, raised, nclose, log>>
replayvars == <<rp>>
boardvars == <<boards, heap, bops>>
auxvars == <<pq, ue>>
latevars == <<gso, inp>>
extvars == <<cv, agent_infos, info_raised, boardvars, auxvars, latevars>>
vars == <<tkvars, gsvars, selvars, isovars, rngvars, clientvars, runvars, replayvars, extvars>>

(***************************************************************************)
(* Ticket (src/pacai/core/ticket.py).                                      *)
(***************************************************************************)
Ticket(next_time, last_time, num_moves) ==
    [next_time |-> next_time, last_time |-> last_time, num_moves |-> num_moves]

\* Python's tuple comparison (a, b, c) < (x, y, z).
TupleLess(s, o) ==
    \/ s[1] < o[1]
    \/ s[1] = o[1] /\ s[2] < o[2]
    \/ s[1] = o[1] /\ s[2] = o[2] /\ s[3] < o[3]

IsBeforeNoMoves(self, other) ==
    TupleLess(<<self.next_time, self.last_time, 0>>, <<other.next_time, other.last_time, 0>>)

IsBefore(self, other) ==
    TupleLess(<<self.next_time, self.last_time, self.num_moves>>,
              <<other.next_time, other.last_time, other.num_moves>>)

\* A next() that keeps the old last_time.
TicketNextKeepsLast(self, move_delay) ==
    Ticket(self.next_time + move_delay, self.last_time, self.num_moves + 1)

\* A next() that ignores the delay.
TicketNextUnitDelay(self, move_delay) ==
    Ticket(self.next_time + 1, self.next_time, self.num_moves + 1)

\* A next() that does not move the ticket in time.
TicketNextSameTime(self, move_delay) ==
    Ticket(self.next_time, self.next_time, self.num_moves + 1)

TicketNext(self, move_delay) ==
    Ticket(self.next_time + move_delay, self.next_time, self.num_moves + 1)

(***************************************************************************)
(* GameState (src/pacai/core/gamestate.py) and the hooks of its children.  *)
(***************************************************************************)
Kinds == {"core", "pacman", "capture", "gridworld"}

PACMAN_AGENT_INDEX == 0
CRASH_POINTS == -1000000

\* The empty dict.
EmptyMap == [a \in {} |-> 0]

\* The permutations of a set, as sequences.
Perms(S) == {s \in [1 .. Cardinality(S) -> S] : \A i, j \in DOMAIN s : i # j => s[i] # s[j]}

\* A move delay that ignores move_delays.
ComputeMoveDelayUnit(delays, a) == 1

\* core GameState.compute_move_delay: a lookup.
\* (pacman's override adds a penalty while a ghost is scared; no ghost is scared here.)
ComputeMoveDelay(delays, a) == delays[a]

\* The loop of get_next_agent_index over the dict's items, from item i on.
RECURSIVE NextIndexFrom(_, _, _, _)
NextIndexFrom(tks, ord, i, next_index) ==
    IF i > Len(ord) THEN next_index
    ELSE NextIndexFrom(tks, ord, i + 1,
            IF (next_index = NoAgent) \/ IsBefore(tks[ord[i]], tks[next_index])
            THEN ord[i] ELSE next_index)

\* A selection that keeps the first agent it sees.
GetFirstAgentIndex(tks, ord) == IF Len(ord) = 0 THEN NoAgent ELSE ord[1]

GetNextAgentIndex(tks, ord) == NextIndexFrom(tks, ord, 1, NoAgent)

\* The keys of move_delays that game_start adds to the tickets dict, in order.
RECURSIVE NewKeys(_, _, _)
NewKeys(mdo, i, have) ==
    IF i > Len(mdo) THEN <<>>
    ELSE (IF mdo[i] \in have THEN <<>> ELSE <<mdo[i]>>) \o NewKeys(mdo, i + 1, have)

\* Tickets issued without the per-agent offset.
InitialTicketsNoOffset(tks, delays) ==
    [a \in (DOMAIN tks) \cup (DOMAIN delays) |->
        IF a \in DOMAIN delays THEN Ticket(ComputeMoveDelay(delays, a), 0, 0) ELSE tks[a]]

\* The tickets game_start issues.
InitialTickets(tks, delays) ==
    [a \in (DOMAIN tks) \cup (DOMAIN delays) |->
        IF a \in DOMAIN delays THEN Ticket(a + ComputeMoveDelay(delays, a), 0, 0) ELSE tks[a]]

\* GameState.game_start.
GameStart ==
    LET tks == InitialTickets(tickets, move_delays)
        ord == torder \o NewKeys(mdorder, 1, DOMAIN tickets)
    IN  /\ tickets' = tks
        /\ torder' = ord
        /\ last_agent_index' = agent_index
        /\ agent_index' = GetNextAgentIndex(tks, ord)
        /\ started' = TRUE
        /\ UNCHANGED <<move_delays, mdorder, game_over, turn_count, score, kind>>

\* GameState.process_agent_crash, with the overrides of pacman and capture.
\* capture: _team_modifier(agent_index) = ((agent_index % 2) * 2) - 1.
CrashScore(k, s, a) ==
    CASE k = "pacman"  -> IF a = PACMAN_AGENT_INDEX THEN s + CRASH_POINTS ELSE s
      [] k = "capture" -> -1 * (((a % 2) * 2) - 1) * CRASH_POINTS
      [] OTHER         -> s

\* A hook that leaves the game running.
HookKeepsRunning(over) == over

\* What the hooks process_agent_timeout / process_agent_crash / process_game_timeout
\* do to game_over.
HookGameOver(over) == TRUE

\* A turn that issues every participant a new ticket.
ProcessTurnFullAdvancesAll(ends) ==
    /\ ~ game_over
    /\ game_over' = ends
    /\ tickets' = [a \in DOMAIN tickets |-> TicketNext(tickets[a], ComputeMoveDelay(move_delays, a))]
    /\ last_agent_index' = agent_index
    /\ agent_index' = IF ends THEN NoAgent ELSE GetNextAgentIndex(tickets', torder)
    /\ turn_count' = turn_count + 1
    /\ UNCHANGED <<move_delays, mdorder, torder, score, kind, started>>

\* A turn after which any tracked participant may be selected.
ProcessTurnFullAnyAgent(ends) ==
    /\ ~ game_over
    /\ game_over' = ends
    /\ tickets' = [tickets EXCEPT ![agent_index] =
                      TicketNext(tickets[agent_index], ComputeMoveDelay(move_delays, agent_index))]
    /\ last_agent_index' = agent_index
    /\ agent_index' \in (IF ends THEN {NoAgent} ELSE DOMAIN tickets)
    /\ turn_count' = turn_count + 1
    /\ UNCHANGED <<move_delays, mdorder, torder, score, kind, started>>

\* A turn that does no bookkeeping when it ends the game.
ProcessTurnFullSkipsLastTurn(ends) ==
    IF game_over \/ ends
    THEN /\ game_over' = (game_over \/ ends)
         /\ UNCHANGED <<move_delays, mdorder, tickets, torder, agent_index, last_agent_index,
                        turn_count, score, kind, started>>
    ELSE /\ tickets' = [tickets EXCEPT ![agent_index] =
                           TicketNext(tickets[agent_index], ComputeMoveDelay(move_delays, agent_index))]
         /\ last_agent_index' = agent_index
         /\ agent_index' = GetNextAgentIndex(tickets', torder)
         /\ turn_count' = turn_count + 1
         /\ UNCHANGED <<move_delays, mdorder, torder, game_over, score, kind, started>>

\* GameState.process_turn_full(action): ends says whether the game's rules
\* (the child's process_turn) end the game on this move.
ProcessTurnFull(ends) ==
    IF game_over
    THEN UNCHANGED gsvars
    ELSE LET over == ends
             tks  == [tickets EXCEPT ![agent_index] =
                         TicketNext(tickets[agent_index], ComputeMoveDelay(move_delays, agent_index))]
         IN  /\ game_over' = over
             /\ tickets' = tks
             /\ last_agent_index' = agent_index
             /\ agent_index' = IF over THEN NoAgent ELSE GetNextAgentIndex(tks, torder)
             /\ turn_count' = turn_count + 1
             /\ UNCHANGED <<move_delays, mdorder, torder, score, kind, started>>

(***************************************************************************)
(* Agents, as the isolators see them.                                      *)
(***************************************************************************)
STOP == "STOP"
\* The actions an agent may answer with; only LegalActions are legal.
Actions == {STOP, "WEST"}

\* An agent method raises an exception.
Raise == "raise"

\* What a call of an agent method can do: return an AgentAction (identified
\* with its action), return no value, or raise.
GetActionOutcomes == Actions \cup {None, Raise}
\* game_start_full and game_complete_full return AgentAction(STOP).
NotifyOutcomes == {STOP, None, Raise}

MESSAGE_TYPE_START == "start"
MESSAGE_TYPE_ACTION == "action"
MESSAGE_TYPE_COMPLETE == "complete"

OutcomesFor(message_type) ==
    IF message_type = MESSAGE_TYPE_ACTION THEN GetActionOutcomes ELSE NotifyOutcomes

(***************************************************************************)
(* AgentActionRecord (src/pacai/core/agentaction.py).                      *)
(***************************************************************************)
AgentActionRecord(a, agent_action, crashed, timeout) ==
    [agent_index |-> a, agent_action |-> agent_action, crashed |-> crashed, timeout |-> timeout]

\* AgentActionRecord.get_action
RecordGetAction(record) ==
    IF record.agent_action = None THEN STOP ELSE record.agent_action

(***************************************************************************)
(* The isolators (src/pacai/core/isolation/none.py, process.py).           *)
(***************************************************************************)
\* queue.Empty: the read of the action queue timed out.
Empty == "Empty"

NoCall == [op |-> "none", phase |-> "idle", agent |-> NoAgent, todo |-> <<>>,
           results |-> <<>>, timed |-> FALSE]
NoRet == [op |-> "none", outcome |-> "none", records |-> <<>>]
NoRead == [agent |-> NoAgent, got |-> "none", tag |-> 0, expected |-> 0, timed |-> FALSE]
\* The part of a GameState that is followed through the queues.
StateCopy(s, over) == [score |-> s, game_over |-> over]
NoMsg == [type |-> "none", tag |-> 0, seed |-> 0, state |-> StateCopy(0, FALSE)]

Returned(op, records) == [op |-> op, outcome |-> "returned", records |-> records]
Raised(op) == [op |-> op, outcome |-> "raised", records |-> <<>>]

IsolatorIdle ==
    /\ level = "none" /\ infos = <<>> /\ closed = FALSE /\ procs = <<>>
    /\ msgq = [a \in Agents |-> <<>>] /\ actq = [a \in Agents |-> <<>>]
    /\ hpc = [a \in Agents |-> "none"] /\ hmsg = [a \in Agents |-> NoMsg]
    /\ call = NoCall /\ ret = NoRet /\ sent = [a \in Agents |-> 0]
    /\ timedOut = FALSE /\ ev = {} /\ lastRead = NoRead /\ did = <<>>
    /\ seeds = [a \in Agents |-> 0] /\ plog = [a \in Agents |-> <<>>]
    /\ rng = 0
    /\ ncalls = 0

InSeq(x, q) == \E i \in DOMAIN q : q[i] = x
\* The place of x in q.
Pos(x, q) == CHOOSE i \in DOMAIN q : q[i] = x

\* ---- NoneIsolator ----

\* A record that lets the exception go unnoticed.
NoneRecordNotCrashed(a, out) ==
    AgentActionRecord(a, IF out = Raise THEN None ELSE out, FALSE, FALSE)

\* none._call_agent_method: the record for a call of an agent method that did out.
NoneRecord(a, out) ==
    AgentActionRecord(a, IF out = Raise THEN None ELSE out, out = Raise, FALSE)

NoneInitAgents ==
    /\ procs' = infos
    /\ seeds' = [a \in Agents |-> IF InSeq(a, infos) THEN 0 ELSE seeds[a]]
    /\ ret' = Returned("init_agents", <<>>)
    /\ ev' = {"return"}
    /\ UNCHANGED <<level, infos, closed, msgq, actq, hpc, hmsg, call, sent, timedOut, lastRead, plog>>
    /\ did' = <<>>

\* A game_start that draws once and gives every agent that value.
NoneStartSeedsShared == [a \in Agents |-> IF InSeq(a, procs) THEN rng + 1 ELSE seeds[a]]

\* The suggested seeds of NoneIsolator.game_start: the agent at place k of
\* _agents gets the k-th value drawn from rng.
NoneStartSeeds == [a \in Agents |-> IF InSeq(a, procs) THEN rng + Pos(a, procs) ELSE seeds[a]]

\* A notification that leaves out the first agent.
NoneNotifySkipsFirst(op) ==
    /\ \E outs \in [1 .. Len(procs) -> NotifyOutcomes] :
          /\ ret' = Returned(op, [i \in 1 .. (Len(procs) - 1) |-> NoneRecord(procs[i + 1], outs[i + 1])])
          /\ did' = outs
    /\ IF op = "game_start"
       THEN rng' = rng + Len(procs) /\ seeds' = NoneStartSeeds
       ELSE UNCHANGED <<rng, seeds>>
    /\ ev' = {"return"}
    /\ UNCHANGED <<level, infos, closed, procs, msgq, actq, hpc, hmsg, call, sent, timedOut, lastRead, plog>>

\* NoneIsolator.game_start and game_complete: every agent is called in turn.
NoneNotify(op) ==
    /\ \E outs \in [1 .. Len(procs) -> NotifyOutcomes] :
          /\ ret' = Returned(op, [i \in 1 .. Len(procs) |-> NoneRecord(procs[i], outs[i])])
          /\ did' = outs
    /\ IF op = "game_start"
       THEN rng' = rng + Len(procs) /\ seeds' = NoneStartSeeds
       ELSE UNCHANGED <<rng, seeds>>
    /\ ev' = {"return"}
    /\ UNCHANGED <<level, infos, closed, procs, msgq, actq, hpc, hmsg, call, sent, timedOut, lastRead, plog>>

\* NoneIsolator.get_action for state.agent_index = a.
NoneGetAction(a) ==
    /\ IF InSeq(a, procs)
       THEN /\ \E out \in GetActionOutcomes :
                  /\ ret' = Returned("get_action", <<NoneRecord(a, out)>>)
                  /\ did' = <<out>>
            /\ ev' = {"return"}
       ELSE \* self._agents[state.agent_index] raises KeyError
            /\ ret' = Raised("get_action")
            /\ did' = <<>>
            /\ ev' = {"raise"}
    /\ UNCHANGED <<level, infos, closed, procs, msgq, actq, hpc, hmsg, call, sent, timedOut, lastRead,
                   seeds, plog, rng>>

NoneClose ==
    /\ procs' = <<>>
    /\ ret' = Returned("close", <<>>)
    /\ ev' = {"return", "close"}
    /\ UNCHANGED <<level, infos, closed, msgq, actq, hpc, hmsg, call, sent, timedOut, lastRead,
                   seeds, plog, rng>>
    /\ did' = <<>>

\* ---- ProcessIsolator ----

\* process._call_agent_method: what the handler puts on the action queue.
HandlerResult(out) == IF out = Raise THEN None ELSE out

\* A record that reports a timeout as a crash as well.
SendAgentMessageRecordBoth(a, got) ==
    AgentActionRecord(a, IF got = Empty THEN None ELSE got, (got = Empty) \/ (got = None), got = Empty)

\* The record _send_agent_message builds from what the read of the action
\* queue gave: Empty (timed out), None or an AgentAction.
SendAgentMessageRecord(a, got) ==
    AgentActionRecord(a, IF got = Empty THEN None ELSE got, (got # Empty) /\ (got = None), got = Empty)

\* message_queue.put(message, False) in _send_agent_message.
PutMessage(a, message_type) ==
    /\ msgq' = [msgq EXCEPT ![a] = Append(@, [type |-> message_type, tag |-> sent[a] + 1,
                    seed |-> IF message_type = MESSAGE_TYPE_START THEN rng + 1 ELSE 0,
                    state |-> StateCopy(score, game_over)])]
    /\ sent' = [sent EXCEPT ![a] = @ + 1]
    /\ rng' = IF message_type = MESSAGE_TYPE_START THEN rng + 1 ELSE rng

OpMessageType(op) ==
    CASE op = "game_start"    -> MESSAGE_TYPE_START
      [] op = "get_action"    -> MESSAGE_TYPE_ACTION
      [] op = "game_complete" -> MESSAGE_TYPE_COMPLETE

ProcessInitAgents ==
    IF closed
    THEN /\ ret' = Raised("init_agents")
         /\ ev' = {"raise"}
         /\ UNCHANGED <<level, infos, closed, procs, msgq, actq, hpc, hmsg, call, sent, timedOut, lastRead, did,
                        seeds, plog>>
    ELSE \* new queues and a new process for every agent
         /\ procs' = procs \o SelectSeq(infos, LAMBDA a : ~ InSeq(a, procs))
         /\ msgq' = [a \in Agents |-> IF InSeq(a, infos) THEN <<>> ELSE msgq[a]]
         /\ actq' = [a \in Agents |-> IF InSeq(a, infos) THEN <<>> ELSE actq[a]]
         /\ hpc' = [a \in Agents |-> IF InSeq(a, infos) THEN "wait" ELSE hpc[a]]
         /\ hmsg' = [a \in Agents |-> IF InSeq(a, infos) THEN NoMsg ELSE hmsg[a]]
         /\ sent' = [a \in Agents |-> IF InSeq(a, infos) THEN 0 ELSE sent[a]]
         /\ seeds' = [a \in Agents |-> IF InSeq(a, infos) THEN 0 ELSE seeds[a]]
         /\ ret' = Returned("init_agents", <<>>)
         /\ ev' = {"return"}
         /\ UNCHANGED <<level, infos, closed, call, timedOut, lastRead, did, plog>>

\* The start of ProcessIsolator.game_start and game_complete, up to the read
\* of the first agent's answer.  timed: the timeout is > 0.
ProcessNotify(op, timed) ==
    IF closed
    THEN /\ IF op = "game_start"
            THEN ret' = Raised(op) /\ ev' = {"raise"}
            ELSE ret' = Returned(op, <<>>) /\ ev' = {"return"}
         /\ UNCHANGED <<level, infos, closed, procs, msgq, actq, hpc, hmsg, call, sent, timedOut, lastRead, did,
                        seeds, plog, rng>>
    ELSE IF procs = <<>>
    THEN /\ ret' = Returned(op, <<>>)
         /\ ev' = {"return"}
         /\ UNCHANGED <<level, infos, closed, procs, msgq, actq, hpc, hmsg, call, sent, timedOut, lastRead, did,
                        seeds, plog, rng>>
    ELSE /\ PutMessage(Head(procs), OpMessageType(op))
         /\ call' = [op |-> op, phase |-> "wait", agent |-> Head(procs), todo |-> Tail(procs),
                     results |-> <<>>, timed |-> timed]
         /\ ev' = {"put"}
         /\ UNCHANGED <<level, infos, closed, procs, actq, hpc, hmsg, ret, timedOut, lastRead, did, seeds, plog>>

\* The start of ProcessIsolator.get_action for state.agent_index = a.
ProcessGetAction(a, timed) ==
    IF closed \/ ~ InSeq(a, procs)
    THEN \* ValueError, or KeyError from self._agent_message_queues[agent_index]
         /\ ret' = Raised("get_action")
         /\ ev' = {"raise"}
         /\ UNCHANGED <<level, infos, closed, procs, msgq, actq, hpc, hmsg, call, sent, timedOut, lastRead, did,
                        seeds, plog, rng>>
    ELSE /\ PutMessage(a, MESSAGE_TYPE_ACTION)
         /\ call' = [op |-> "get_action", phase |-> "wait", agent |-> a, todo |-> <<>>,
                     results |-> <<>>, timed |-> timed]
         /\ ev' = {"put"}
         /\ UNCHANGED <<level, infos, closed, procs, actq, hpc, hmsg, ret, timedOut, lastRead, did, seeds, plog>>

\* The handlers that can still answer while close() waits for them to end.
CanAnswerLate == {a \in Agents : hpc[a] = "call"}

\* The processes close() finds alive after its first join: the handlers that
\* wait for a message or are in a call, but for those that answer a
\* complete message in time and leave their loop.
AliveAfterJoin(late) ==
    {a \in Agents : /\ hpc[a] \in {"wait", "call"}
                    /\ ~ (a \in late /\ hmsg[a].type = MESSAGE_TYPE_COMPLETE)}

\* The processes that may outlive terminate: a handler that waits for a
\* message ends on SIGTERM, one that is inside an agent method may not.
MayIgnoreTerminate(late) == {a \in AliveAfterJoin(late) : hpc[a] = "call" /\ a \notin late}

\* A _join_process that stops after terminate.
JoinProcessNoKill(alive, stubborn) ==
    IF ~ alive THEN <<"join">> ELSE <<"join", "terminate", "join">>

\* _join_process: the calls made on a process; alive: it has not ended within
\* JOIN_WAIT_SECS; stubborn: it has not ended within REAP_WAIT_SECS of terminate.
JoinProcess(alive, stubborn) ==
    IF ~ alive THEN <<"join">>
    ELSE IF ~ stubborn THEN <<"join", "terminate", "join">>
    ELSE <<"join", "terminate", "join", "kill">>

\* The process has ended or has been sent SIGKILL.
Ended(calls, stubborn) == (Len(calls) = 1) \/ ~ stubborn \/ (calls[Len(calls)] = "kill")

\* A close() that leaves the isolator open.
CloseBodyStaysOpen(late, out) ==
    UNCHANGED <<closed, procs, actq, hpc, plog>>

\* The body of ProcessIsolator.close() on an open isolator.  The handlers in
\* late answer their message (with out) before their process is ended.
CloseBody(late, out) ==
    /\ closed' = TRUE
    /\ procs' = <<>>
    /\ actq' = [a \in Agents |->
                  IF a \in late
                  THEN Append(actq[a], [val |-> HandlerResult(out[a]), tag |-> hmsg[a].tag])
                  ELSE actq[a]]
    /\ \E stubborn \in SUBSET MayIgnoreTerminate(late) :
          /\ plog' = [a \in Agents |->
                        IF InSeq(a, procs)
                        THEN JoinProcess(a \in AliveAfterJoin(late), a \in stubborn)
                        ELSE <<>>]
          /\ hpc' = [a \in Agents |->
                        IF hpc[a] \in {"wait", "call"} /\ Ended(plog'[a], a \in stubborn)
                        THEN "dead" ELSE hpc[a]]

\* A close() that refuses to be called twice.
ProcessCloseRaisesIfClosed ==
    IF closed
    THEN /\ ret' = Raised("close")
         /\ ev' = {"raise"}
         /\ UNCHANGED <<level, infos, closed, procs, msgq, actq, hpc, hmsg, call, sent, timedOut, lastRead, did,
                        seeds, plog, rng>>
    ELSE /\ \E late \in SUBSET CanAnswerLate :
            \E out \in [late -> GetActionOutcomes] : CloseBody(late, out)
         /\ ret' = Returned("close", <<>>)
         /\ ev' = {"return", "close"}
         /\ UNCHANGED <<level, infos, msgq, hmsg, call, sent, timedOut, lastRead, did, seeds, rng>>

\* ProcessIsolator.close
ProcessClose ==
    IF closed
    THEN /\ ret' = Returned("close", <<>>)
         /\ ev' = {"return"}
         /\ UNCHANGED <<level, infos, closed, procs, msgq, actq, hpc, hmsg, call, sent, timedOut, lastRead, did,
                        seeds, plog, rng>>
    ELSE /\ \E late \in SUBSET CanAnswerLate :
            \E out \in [late -> GetActionOutcomes] : CloseBody(late, out)
         /\ ret' = Returned("close", <<>>)
         /\ ev' = {"return", "close"}
         /\ UNCHANGED <<level, infos, msgq, hmsg, call, sent, timedOut, lastRead, did, seeds, rng>>

\* _send_agent_message: the read of the action queue returns the agent's
\* answer.  game_start and game_complete go on to the next agent, if any.
SendAgentMessageRecv ==
    /\ call.phase = "wait"
    /\ actq[call.agent] # <<>>
    /\ LET resp == Head(actq[call.agent])
           record == SendAgentMessageRecord(call.agent, resp.val)
           results == Append(call.results, record)
       IN  /\ actq' = [actq EXCEPT ![call.agent] = Tail(@)]
           /\ lastRead' = [agent |-> call.agent, got |-> resp.val, tag |-> resp.tag,
                           expected |-> sent[call.agent], timed |-> call.timed]
           /\ IF call.todo = <<>>
              THEN /\ ret' = Returned(call.op, results)
                   /\ call' = NoCall
                   /\ ev' = {"get", "return"}
                   /\ UNCHANGED <<msgq, sent, rng>>
              ELSE /\ PutMessage(Head(call.todo), OpMessageType(call.op))
                   /\ call' = [call EXCEPT !.agent = Head(call.todo), !.todo = Tail(call.todo),
                                           !.results = results]
                   /\ ev' = {"get", "put"}
                   /\ UNCHANGED ret
    /\ UNCHANGED <<level, infos, closed, procs, hpc, hmsg, timedOut, did, seeds, plog>>

\* A read that times out whatever timeout the caller gave.
SendAgentMessageTimeoutAlways ==
    /\ call.phase = "wait"
    /\ actq[call.agent] = <<>>
    /\ \E late \in SUBSET CanAnswerLate :
        \E out \in [late -> GetActionOutcomes] : CloseBody(late, out)
    /\ lastRead' = [agent |-> call.agent, got |-> Empty, tag |-> 0, expected |-> sent[call.agent],
                    timed |-> call.timed]
    /\ ret' = Returned(call.op, Append(call.results, SendAgentMessageRecord(call.agent, Empty)))
    /\ call' = NoCall
    /\ timedOut' = TRUE
    /\ ev' = {"timeout", "close", "return"}
    /\ UNCHANGED <<level, infos, msgq, hmsg, sent, did, seeds, rng>>

\* _send_agent_message: the read of the action queue times out; the isolator
\* closes itself and the call returns what it has.
SendAgentMessageTimeout ==
    /\ call.phase = "wait"
    /\ call.timed
    /\ actq[call.agent] = <<>>
    /\ \E late \in SUBSET CanAnswerLate :
        \E out \in [late -> GetActionOutcomes] : CloseBody(late, out)
    /\ lastRead' = [agent |-> call.agent, got |-> Empty, tag |-> 0, expected |-> sent[call.agent],
                    timed |-> call.timed]
    /\ ret' = Returned(call.op, Append(call.results, SendAgentMessageRecord(call.agent, Empty)))
    /\ call' = NoCall
    /\ timedOut' = TRUE
    /\ ev' = {"timeout", "close", "return"}
    /\ UNCHANGED <<level, infos, msgq, hmsg, sent, did, seeds, rng>>

\* _agent_handler: message_queue.get(True) returns a message.
AgentHandlerGet(a) ==
    /\ hpc[a] = "wait"
    /\ msgq[a] # <<>>
    /\ hmsg' = [hmsg EXCEPT ![a] = Head(msgq[a])]
    /\ msgq' = [msgq EXCEPT ![a] = Tail(@)]
    /\ hpc' = [hpc EXCEPT ![a] = "call"]
    /\ seeds' = IF Head(msgq[a]).type = MESSAGE_TYPE_START
                THEN [seeds EXCEPT ![a] = Head(msgq[a]).seed]
                ELSE seeds
    /\ ev' = {}
    /\ UNCHANGED <<level, infos, closed, procs, actq, call, ret, sent, timedOut, lastRead, did, plog, rng>>

\* A handler that answers every message twice.
HandlerAnswersTwice(q, resp) == Append(Append(q, resp), resp)

\* action_queue.put(agent_action, False) in _agent_handler.
HandlerAnswers(q, resp) == Append(q, resp)

\* A handler that leaves its loop when the agent method has raised.
HandlerLeavesLoopOnRaise(message_type, out) ==
    (message_type = MESSAGE_TYPE_COMPLETE) \/ (out = Raise)

\* The break of the loop of _agent_handler, after the put.
HandlerLeavesLoop(message_type, out) == message_type = MESSAGE_TYPE_COMPLETE

\* _agent_handler: the agent method is called and its result (None if it
\* raised) is put on the action queue; after a complete message the handler
\* leaves its loop, empties its message queue and ends.
AgentHandlerPut(a) ==
    /\ hpc[a] = "call"
    /\ \E out \in OutcomesFor(hmsg[a].type) :
          /\ actq' = [actq EXCEPT ![a] = HandlerAnswers(@, [val |-> HandlerResult(out), tag |-> hmsg[a].tag])]
          /\ IF HandlerLeavesLoop(hmsg[a].type, out)
             THEN hpc' = [hpc EXCEPT ![a] = "exit"] /\ msgq' = [msgq EXCEPT ![a] = <<>>]
             ELSE hpc' = [hpc EXCEPT ![a] = "wait"] /\ UNCHANGED msgq
    /\ hmsg' = [hmsg EXCEPT ![a] = NoMsg]
    /\ ev' = {}
    /\ UNCHANGED <<level, infos, closed, procs, call, ret, sent, timedOut, lastRead, did, seeds, plog, rng>>

\* What CheatingAgent.get_action makes of the state it is given.
CHEAT_SCORE == 1000
CheatedState == StateCopy(CHEAT_SCORE, TRUE)

\* Agent writes that reach the state of the game thread.
AgentWritesShared == score' = CHEAT_SCORE /\ game_over' = TRUE

\* Where the writes of an agent to its state go under ProcessIsolator: to the
\* object its process got from the message queue, not to the state of the
\* game thread.
AgentWrites == UNCHANGED <<score, game_over>>

\* The agent method that handler a is in writes to the state it was given.
AgentCheats(a) ==
    /\ hpc[a] = "call"
    /\ hmsg[a].state # CheatedState
    /\ hmsg' = [hmsg EXCEPT ![a].state = CheatedState]
    /\ AgentWrites
    /\ ev' = {}
    /\ UNCHANGED <<level, infos, closed, procs, msgq, actq, hpc, call, ret, sent, timedOut, lastRead, did,
                   seeds, plog, rng>>

\* ---- the calls of the AgentIsolator interface ----
IsoInitAgents == IF level = "process" THEN ProcessInitAgents ELSE NoneInitAgents
IsoGameStart(timed) ==
    IF level = "process" THEN ProcessNotify("game_start", timed) ELSE NoneNotify("game_start")
IsoGameComplete(timed) ==
    IF level = "process" THEN ProcessNotify("game_complete", timed) ELSE NoneNotify("game_complete")
IsoGetAction(a, timed) ==
    IF level = "process" THEN ProcessGetAction(a, timed) ELSE NoneGetAction(a)
IsoClose == IF level = "process" THEN ProcessClose ELSE NoneClose

(***************************************************************************)
(* Game.run (src/pacai/core/game.py).                                      *)
(***************************************************************************)
DEFAULT_MAX_TURNS == -1

\* state.get_legal_actions() for an agent that can only stop.
LegalActions == {STOP}

NewResult == [history |-> <<>>, timeout_agent_indexes |-> <<>>, crash_agent_indexes |-> <<>>,
              game_timeout |-> FALSE, agent_complete_records |-> <<>>, score |-> 0]

\* The flags of the records of a list.
Flags(records) ==
    [i \in DOMAIN records |->
        [agent_index |-> records[i].agent_index, crashed |-> records[i].crashed,
         timeout |-> records[i].timeout]]

\* run() has made no isolator call.
NoLog == [ops |-> <<>>, start |-> <<>>]

\* No game is played twice.
NoReplay == [game |-> 0]

RunIdle ==
    /\ pc = "none" /\ result = NewResult /\ raised = "none" /\ nclose = 0
    /\ log = NoLog
    /\ game_info = [max_turns |-> DEFAULT_MAX_TURNS, agent_start_timeout |-> FALSE,
                    agent_action_timeout |-> FALSE, agent_end_timeout |-> FALSE]

ReplayIdle == rp = NoReplay

\* Nothing is converted.
NoCodec == [stage |-> "none"]
CodecIdle == cv = NoCodec

\* No AgentInfo is made.
InfoIdle == agent_infos = EmptyMap /\ info_raised = "none"

\* No Board is made.
BoardIdle == boards = <<>> /\ heap = [nonwall |-> <<>>, initial |-> <<>>] /\ bops = 0

\* No container is made.
NoQueue == [stage |-> "none"]
QueueIdle == pq = NoQueue

\* No behaviour is compared.
NoUniform == [stage |-> "none"]
UniformIdle == ue = NoUniform
AuxIdle == QueueIdle /\ UniformIdle
\* No game state is copied and no user input is read.
NoSuccessors == [stage |-> "none"]
SuccIdle == gso = NoSuccessors
NoInputs == [stage |-> "none"]
InputIdle == inp = NoInputs
LateIdle == SuccIdle /\ InputIdle
ExtIdle == CodecIdle /\ InfoIdle /\ BoardIdle /\ AuxIdle /\ LateIdle

\* A check that never ends the loop.
CheckEndNever(over) == FALSE

\* Game.check_end
CheckEnd(over) == over

\* The effect of state.process_agent_timeout(a) or state.process_agent_crash(a)
\* on a state with game_over = over and score = s.
AfterAgentFailure(over, s, a) == [game_over |-> HookGameOver(over), score |-> CrashScore(kind, s, a)]

\* A loop that applies none of the records.
ApplyStartRecordsSkips(records, i, acc) == acc

\* A loop that lists every failed participant as crashed.
ApplyStartRecordsAsCrashes(records, i, acc) ==
    LET failed == SelectSeq(records, LAMBDA r : r.timeout \/ r.crashed)
    IN  [acc EXCEPT !.crashes = @ \o [j \in DOMAIN failed |-> failed[j].agent_index],
                    !.game_over = IF failed = <<>> THEN @ ELSE HookGameOver(@)]

\* The loop of run() over the records game_start returned, from record i on.
RECURSIVE ApplyStartRecords(_, _, _)
ApplyStartRecords(records, i, acc) ==
    IF i > Len(records) THEN acc
    ELSE LET r == records[i]
             st == AfterAgentFailure(acc.game_over, acc.score, r.agent_index)
         IN  ApplyStartRecords(records, i + 1,
                IF r.timeout
                THEN [acc EXCEPT !.timeouts = Append(@, r.agent_index),
                                 !.game_over = st.game_over, !.score = st.score]
                ELSE IF r.crashed
                THEN [acc EXCEPT !.crashes = Append(@, r.agent_index),
                                 !.game_over = st.game_over, !.score = st.score]
                ELSE acc)

\* The values process_turn draws from rng: the gridworld chooses one of the
\* transitions of the action unless the only one is the exit.
TurnDraws(ends) == IF kind = "gridworld" /\ ~ ends THEN 1 ELSE 0

\* A process_turn that takes every action.
ProcessTurnNeverRejects(record) == FALSE

\* Game.process_turn raises ValueError for this record.
ProcessTurnRejects(record) ==
    /\ ~ record.timeout
    /\ ~ record.crashed
    /\ RecordGetAction(record) \notin LegalActions

\* run() up to the call of isolator.game_start: the isolator is made and
\* init_agents called, the initial state is made and started.
RunStart ==
    /\ pc = "start"
    /\ IsoInitAgents
    /\ GameStart
    /\ pc' = "game_start"
    /\ rng' = rng + 1
    /\ log' = [log EXCEPT !.ops = Append(@, "init_agents")]
    /\ UNCHANGED <<result, raised, nclose, game_info>>

RunGameStart ==
    /\ pc = "game_start"
    /\ IsoGameStart(game_info.agent_start_timeout)
    /\ pc' = "game_start_wait"
    /\ log' = [log EXCEPT !.ops = Append(@, "game_start")]
    /\ UNCHANGED <<gsvars, result, raised, nclose, game_info>>

\* The records of game_start are applied to the state and the result.
RunAgentsStarted ==
    /\ pc = "game_start_wait"
    /\ call.phase = "idle"
    /\ LET acc == ApplyStartRecords(ret.records, 1,
                      [timeouts |-> result.timeout_agent_indexes,
                       crashes |-> result.crash_agent_indexes,
                       game_over |-> game_over, score |-> score])
       IN  /\ result' = [result EXCEPT !.timeout_agent_indexes = acc.timeouts,
                                       !.crash_agent_indexes = acc.crashes]
           /\ game_over' = acc.game_over
           /\ score' = acc.score
    /\ pc' = "loop"
    /\ log' = [log EXCEPT !.start = Flags(ret.records)]
    /\ UNCHANGED <<move_delays, mdorder, tickets, torder, agent_index, last_agent_index,
                   turn_count, kind, started, isovars, rng, raised, nclose, game_info>>

\* The head of the main loop: the game goes on and the next action is asked for.
RunGetAction ==
    /\ pc = "loop"
    /\ ~ CheckEnd(game_over)
    /\ turn_count < TurnCap
    /\ IsoGetAction(agent_index, game_info.agent_action_timeout)
    /\ pc' = "get_action_wait"
    /\ log' = [log EXCEPT !.ops = Append(@, "get_action")]
    /\ UNCHANGED <<gsvars, result, raised, nclose, game_info>>

\* A turn that keeps the records of failed agents out of the history.
RunTurnSkipsFailedRecords ==
    /\ pc = "get_action_wait"
    /\ call.phase = "idle"
    /\ ret.outcome = "returned"
    /\ LET record == ret.records[1] IN
         /\ ~ ProcessTurnRejects(record)
         /\ IF record.timeout \/ record.crashed
            THEN LET st == AfterAgentFailure(game_over, score, record.agent_index) IN
                 /\ game_over' = st.game_over
                 /\ score' = st.score
                 /\ result' = [result EXCEPT
                       !.timeout_agent_indexes =
                           IF record.timeout THEN Append(@, record.agent_index) ELSE @,
                       !.crash_agent_indexes =
                           IF record.timeout THEN @ ELSE Append(@, record.agent_index)]
                 /\ UNCHANGED <<move_delays, mdorder, tickets, torder, agent_index,
                                last_agent_index, turn_count, kind, started, rng>>
            ELSE /\ \E ends \in BOOLEAN : ProcessTurnFull(ends) /\ rng' = rng + TurnDraws(ends)
                 /\ result' = [result EXCEPT !.history = Append(@, record)]
    /\ pc' = IF CheckEnd(game_over') THEN "end" ELSE "check_max_turns"
    /\ UNCHANGED <<raised, isovars, nclose, game_info, log>>

\* The rest of a turn of the main loop: process_turn (which raises for an
\* illegal action), the history, and the check for the end of the game.  If
\* isolator.get_action raised, run() raises.
RunTurn ==
    /\ pc = "get_action_wait"
    /\ call.phase = "idle"
    /\ IF ret.outcome = "raised"
       THEN /\ pc' = "raised"
            /\ raised' = "isolator"
            /\ UNCHANGED <<gsvars, result, rng>>
       ELSE LET record == ret.records[1] IN
            IF ProcessTurnRejects(record)
            THEN /\ pc' = "raised"
                 /\ raised' = "illegal"
                 /\ UNCHANGED <<gsvars, result, rng>>
            ELSE /\ IF record.timeout \/ record.crashed
                    THEN LET st == AfterAgentFailure(game_over, score, record.agent_index) IN
                         /\ game_over' = st.game_over
                         /\ score' = st.score
                         /\ result' = [result EXCEPT
                               !.history = Append(@, record),
                               !.timeout_agent_indexes =
                                   IF record.timeout THEN Append(@, record.agent_index) ELSE @,
                               !.crash_agent_indexes =
                                   IF record.timeout THEN @ ELSE Append(@, record.agent_index)]
                         /\ UNCHANGED <<move_delays, mdorder, tickets, torder, agent_index,
                                        last_agent_index, turn_count, kind, started, rng>>
                    ELSE /\ \E ends \in BOOLEAN : ProcessTurnFull(ends) /\ rng' = rng + TurnDraws(ends)
                         /\ result' = [result EXCEPT !.history = Append(@, record)]
                 /\ pc' = IF CheckEnd(game_over') THEN "end" ELSE "check_max_turns"
                 /\ UNCHANGED raised
    /\ UNCHANGED <<isovars, nclose, game_info, log>>

\* A check that lets one more turn be taken.
RunCheckMaxTurnsLate ==
    /\ pc = "check_max_turns"
    /\ IF (game_info.max_turns > 0) /\ (turn_count > game_info.max_turns)
       THEN /\ game_over' = HookGameOver(game_over)
            /\ result' = [result EXCEPT !.game_timeout = TRUE]
            /\ pc' = "end"
       ELSE /\ pc' = "loop"
            /\ UNCHANGED <<game_over, result>>
    /\ UNCHANGED <<move_delays, mdorder, tickets, torder, agent_index, last_agent_index,
                   turn_count, score, kind, started, isovars, rng, raised, nclose, game_info, log>>

\* The end of a turn: the check for the maximum number of turns.
RunCheckMaxTurns ==
    /\ pc = "check_max_turns"
    /\ IF (game_info.max_turns > 0) /\ (turn_count >= game_info.max_turns)
       THEN /\ game_over' = HookGameOver(game_over)
            /\ result' = [result EXCEPT !.game_timeout = TRUE]
            /\ pc' = "end"
       ELSE /\ pc' = "loop"
            /\ UNCHANGED <<game_over, result>>
    /\ UNCHANGED <<move_delays, mdorder, tickets, torder, agent_index, last_agent_index,
                   turn_count, score, kind, started, isovars, rng, raised, nclose, game_info, log>>

\* After the loop: the score is taken and the agents are told of the end.
RunGameComplete ==
    /\ pc \in {"end", "loop"}
    /\ (pc = "loop") => CheckEnd(game_over)
    /\ IsoGameComplete(game_info.agent_end_timeout)
    /\ result' = [result EXCEPT !.score = score]
    /\ pc' = "game_complete_wait"
    /\ log' = [log EXCEPT !.ops = Append(@, "game_complete")]
    /\ UNCHANGED <<gsvars, raised, nclose, game_info>>

\* The records of game_complete are stored, the isolator is closed and the
\* result is returned.
RunFinish ==
    /\ pc = "game_complete_wait"
    /\ call.phase = "idle"
    /\ result' = [result EXCEPT !.agent_complete_records = ret.records]
    /\ IsoClose
    /\ nclose' = nclose + 1
    /\ pc' = "done"
    /\ log' = [log EXCEPT !.ops = Append(@, "close")]
    /\ UNCHANGED <<gsvars, raised, game_info>>

(***************************************************************************)
(* Specification of the ticket comparison: three tickets are drawn and     *)
(* compared pairwise.                                                      *)
(***************************************************************************)
FieldRange == -1 .. MaxField
TicketRange == {Ticket(n, l, m) : n \in FieldRange, l \in FieldRange, m \in FieldRange}

NoCmp == [ab |-> FALSE, ba |-> FALSE, bc |-> FALSE, ac |-> FALSE, aa |-> FALSE, done |-> FALSE]

GameStateIdle ==
    /\ move_delays = EmptyMap /\ mdorder = <<>> /\ tickets = EmptyMap /\ torder = <<>>
    /\ agent_index = NoAgent /\ last_agent_index = NoAgent /\ game_over = FALSE
    /\ turn_count = 0 /\ score = 0 /\ kind = "core" /\ started = FALSE

\* No call of Ticket.next has been made.
NoNext == [made |-> FALSE]

TicketIdle == tk = <<>> /\ cmp = NoCmp /\ nx = NoNext

\* No call of get_next_agent_index() has returned yet.
NoSel == <<>>

InitTicket ==
    /\ tk \in [1 .. 3 -> TicketRange]
    /\ cmp = NoCmp
    /\ nx = NoNext
    /\ GameStateIdle
    /\ sel = NoSel
    /\ IsolatorIdle
    /\ RunIdle /\ ExtIdle
    /\ ReplayIdle

Compare ==
    /\ ~ cmp.done
    /\ cmp' = [ab |-> IsBefore(tk[1], tk[2]), ba |-> IsBefore(tk[2], tk[1]),
               bc |-> IsBefore(tk[2], tk[3]), ac |-> IsBefore(tk[1], tk[3]),
               aa |-> IsBefore(tk[1], tk[1]), done |-> TRUE]
    /\ UNCHANGED <<tk, nx, gsvars, selvars, isovars, rngvars, clientvars, runvars, replayvars, extvars>>

\* A call tk[1].next(move_delay) with a positive delay.  The call builds a new
\* Ticket and assigns nothing to the ticket it is called on.
Advance ==
    /\ ~ nx.made
    /\ \E move_delay \in 1 .. MaxDelay :
          LET out == TicketNext(tk[1], move_delay)
          IN  nx' = [made |-> TRUE, self |-> tk[1], move_delay |-> move_delay, out |-> out,
                     before |-> IsBefore(tk[1], out)]
    /\ UNCHANGED <<tk, cmp, gsvars, selvars, isovars, rngvars, clientvars, runvars, replayvars, extvars>>

NextTicket == Compare \/ Advance

SpecTicket == InitTicket /\ [][NextTicket]_vars

(***************************************************************************)
(* Specification of the scheduler: a GameState is constructed (with no     *)
(* tickets, or with the tickets handed to the constructor), started, and   *)
(* turns are processed.                                                    *)
(***************************************************************************)
StartFieldRange == 0 .. MaxStartField
StartTickets == {Ticket(n, l, m) : n \in StartFieldRange, l \in StartFieldRange, m \in StartFieldRange}

InitSched ==
    /\ TicketIdle
    /\ move_delays \in [Agents -> 1 .. MaxDelay]
    /\ mdorder \in Perms(Agents)
    /\ \/ tickets = EmptyMap /\ torder = <<>>
       \/ tickets \in [Agents -> StartTickets] /\ torder = mdorder
    /\ agent_index = NoAgent /\ last_agent_index = NoAgent
    /\ game_over = FALSE /\ turn_count = 0 /\ score = 0
    /\ kind = "core"
    /\ started = FALSE
    /\ sel = NoSel
    /\ IsolatorIdle
    /\ RunIdle /\ ExtIdle
    /\ ReplayIdle

SchedGameStart ==
    /\ ~ started
    /\ GameStart
    /\ sel' = NoSel
    /\ UNCHANGED <<tkvars, isovars, rngvars, clientvars, runvars, replayvars, extvars>>

\* A call of GameState.get_next_agent_index() on the current state.
SchedGetNextAgentIndex ==
    /\ sel' = <<GetNextAgentIndex(tickets, torder)>>
    /\ UNCHANGED <<tkvars, gsvars, isovars, rngvars, clientvars, runvars, replayvars, extvars>>

SchedProcessTurnFull ==
    /\ started
    /\ agent_index # NoAgent
    /\ ~ game_over
    /\ turn_count < TurnCap
    /\ \E ends \in BOOLEAN : ProcessTurnFull(ends)
    /\ sel' = NoSel
    /\ UNCHANGED <<tkvars, isovars, rngvars, clientvars, runvars, replayvars, extvars>>

NextSched == SchedGameStart \/ SchedGetNextAgentIndex \/ SchedProcessTurnFull

SpecSched == InitSched /\ [][NextSched]_vars

(***************************************************************************)
(* Specification of the two-speed game: a GameState constructed for two    *)
(* participants with move delays 100 and 50 and identical tickets, whose   *)
(* turns are processed without the game's rules ending it.                 *)
(***************************************************************************)
\* The move delays of the example of Agent.move_delay (src/pacai/core/agent.py:51).
SLOW_MOVE_DELAY == 100
FAST_MOVE_DELAY == 50

\* The agents selected so far, in the first game.
FirstGame(acted) == [game |-> 1, decisions |-> <<>>, acted |-> <<acted, <<>>>>,
                     tickets0 |-> EmptyMap, torder0 |-> <<>>]

InitTurns ==
    /\ TicketIdle /\ sel = NoSel /\ IsolatorIdle /\ RunIdle /\ ExtIdle
    /\ \E pair \in SUBSET Agents :
          /\ Cardinality(pair) = 2
          /\ move_delays \in {d \in [pair -> {SLOW_MOVE_DELAY, FAST_MOVE_DELAY}] :
                                 \A a, b \in pair : (a # b) => (d[a] # d[b])}
          /\ mdorder \in Perms(pair)
          /\ \E t \in StartTickets : tickets = [a \in pair |-> t]
          /\ torder \in Perms(pair)
          /\ agent_index \in pair
    /\ last_agent_index = NoAgent
    /\ game_over = FALSE /\ turn_count = 0 /\ score = 0
    /\ kind = "core"
    /\ started = FALSE
    /\ rp = FirstGame(<<>>)

TurnsProcessTurnFull ==
    /\ turn_count < ScenarioTurns
    /\ ProcessTurnFull(FALSE)
    /\ rp' = [rp EXCEPT !.acted[1] = Append(@, agent_index)]
    /\ UNCHANGED <<tkvars, selvars, isovars, rngvars, clientvars, runvars, extvars>>

NextTurns == TurnsProcessTurnFull

SpecTurns == InitTurns /\ [][NextTurns]_vars

(***************************************************************************)
(* Specification of a game played twice: a GameState is constructed,       *)
(* started and its turns processed; then a second GameState is constructed *)
(* from the same arguments and fed the decisions of the first game.        *)
(***************************************************************************)
InitReplay ==
    /\ TicketIdle /\ sel = NoSel /\ IsolatorIdle /\ RunIdle /\ ExtIdle
    /\ move_delays \in [Agents -> 1 .. MaxDelay]
    /\ mdorder \in Perms(Agents)
    /\ \/ tickets = EmptyMap /\ torder = <<>>
       \/ /\ \E t \in StartTickets : tickets = [a \in Agents |-> t]
          /\ torder \in Perms(Agents)
    /\ agent_index = NoAgent /\ last_agent_index = NoAgent
    /\ game_over = FALSE /\ turn_count = 0 /\ score = 0
    /\ kind = "core"
    /\ started = FALSE
    /\ rp = [game |-> 1, decisions |-> <<>>, acted |-> << <<>>, <<>> >>,
             tickets0 |-> tickets, torder0 |-> torder]

ReplayGameStart ==
    /\ ~ started
    /\ GameStart
    /\ rp' = [rp EXCEPT !.acted[rp.game] = Append(@, agent_index')]
    /\ UNCHANGED <<tkvars, selvars, isovars, rngvars, clientvars, runvars, extvars>>

\* A turn; the second game is fed the decisions of the first.
ReplayProcessTurnFull ==
    /\ started
    /\ agent_index # NoAgent
    /\ ~ game_over
    /\ turn_count < TurnCap
    /\ \E ends \in BOOLEAN :
          /\ (rp.game = 2) => (turn_count < Len(rp.decisions) /\ ends = rp.decisions[turn_count + 1])
          /\ ProcessTurnFull(ends)
          /\ rp' = [rp EXCEPT !.decisions = IF rp.game = 1 THEN Append(@, ends) ELSE @,
                              !.acted[rp.game] = Append(@, agent_index')]
    /\ UNCHANGED <<tkvars, selvars, isovars, rngvars, clientvars, runvars, extvars>>

\* The second GameState is constructed, from the arguments of the first.
ReplayConstruct ==
    /\ rp.game = 1
    /\ started
    /\ tickets' = rp.tickets0
    /\ torder' = rp.torder0
    /\ agent_index' = NoAgent /\ last_agent_index' = NoAgent
    /\ game_over' = FALSE /\ turn_count' = 0
    /\ started' = FALSE
    /\ rp' = [rp EXCEPT !.game = 2]
    /\ UNCHANGED <<move_delays, mdorder, score, kind, tkvars, selvars, isovars, rngvars, clientvars, runvars, extvars>>

NextReplay == ReplayGameStart \/ ReplayProcessTurnFull \/ ReplayConstruct

SpecReplay == InitReplay /\ [][NextReplay]_vars

(***************************************************************************)
(* Specification of an isolator and its agent processes under a client     *)
(* that makes the calls of the AgentIsolator interface in any order.       *)
(***************************************************************************)
InitIso ==
    /\ TicketIdle /\ GameStateIdle /\ sel = NoSel
    /\ level \in {"none", "process"}
    /\ infos \in Perms(Agents)
    /\ closed = FALSE /\ procs = <<>>
    /\ msgq = [a \in Agents |-> <<>>] /\ actq = [a \in Agents |-> <<>>]
    /\ hpc = [a \in Agents |-> "none"] /\ hmsg = [a \in Agents |-> NoMsg]
    /\ call = NoCall /\ ret = NoRet /\ sent = [a \in Agents |-> 0]
    /\ timedOut = FALSE /\ ev = {} /\ lastRead = NoRead /\ did = <<>>
    /\ seeds = [a \in Agents |-> 0] /\ plog = [a \in Agents |-> <<>>]
    /\ rng \in 0 .. 1
    /\ ncalls = 0
    /\ RunIdle /\ ExtIdle
    /\ ReplayIdle

ClientReady == call.phase = "idle" /\ ncalls < MaxCalls
ClientFrame == ncalls' = ncalls + 1 /\ UNCHANGED <<tkvars, gsvars, selvars, runvars, replayvars, extvars>>

ClientInitAgents == ClientReady /\ IsoInitAgents /\ UNCHANGED rng /\ ClientFrame
ClientGameStart == ClientReady /\ (\E timed \in BOOLEAN : IsoGameStart(timed)) /\ ClientFrame
ClientGetAction ==
    ClientReady /\ (\E a \in Agents, timed \in BOOLEAN : IsoGetAction(a, timed)) /\ ClientFrame
ClientGameComplete == ClientReady /\ (\E timed \in BOOLEAN : IsoGameComplete(timed)) /\ ClientFrame
ClientClose == ClientReady /\ IsoClose /\ ClientFrame

IsoRecv == SendAgentMessageRecv /\ UNCHANGED <<tkvars, gsvars, selvars, clientvars, runvars, replayvars, extvars>>
IsoTimeout == SendAgentMessageTimeout /\ UNCHANGED <<tkvars, gsvars, selvars, clientvars, runvars, replayvars, extvars>>
HandlerGet == \E a \in Agents : AgentHandlerGet(a) /\ UNCHANGED <<tkvars, gsvars, selvars, clientvars, runvars, replayvars, extvars>>
HandlerPut == \E a \in Agents : AgentHandlerPut(a) /\ UNCHANGED <<tkvars, gsvars, selvars, clientvars, runvars, replayvars, extvars>>
HandlerCheats == \E a \in Agents : AgentCheats(a) /\ UNCHANGED <<tkvars, gsrest, selvars, clientvars, runvars, replayvars, extvars>>

NextIso ==
    \/ ClientInitAgents \/ ClientGameStart \/ ClientGetAction \/ ClientGameComplete \/ ClientClose
    \/ IsoRecv \/ IsoTimeout \/ HandlerGet \/ HandlerPut \/ HandlerCheats

SpecIso == InitIso /\ [][NextIso]_vars

(***************************************************************************)
(* Specification of a game: Game.run with its isolator, the agent          *)
(* processes and the game state.                                           *)
(***************************************************************************)
Init ==
    /\ TicketIdle /\ sel = NoSel /\ ncalls = 0
    /\ level \in {"none", "process"}
    /\ infos \in Perms(Agents)
    /\ closed = FALSE /\ procs = <<>>
    /\ msgq = [a \in Agents |-> <<>>] /\ actq = [a \in Agents |-> <<>>]
    /\ hpc = [a \in Agents |-> "none"] /\ hmsg = [a \in Agents |-> NoMsg]
    /\ call = NoCall /\ ret = NoRet /\ sent = [a \in Agents |-> 0]
    /\ timedOut = FALSE /\ ev = {} /\ lastRead = NoRead /\ did = <<>>
    /\ seeds = [a \in Agents |-> 0] /\ plog = [a \in Agents |-> <<>>]
    /\ rng = 0
    \* the state get_initial_state constructs from game_info.agent_infos
    /\ move_delays \in [Agents -> 1 .. MaxDelay]
    /\ mdorder = infos
    /\ tickets = EmptyMap /\ torder = <<>>
    /\ agent_index = NoAgent /\ last_agent_index = NoAgent
    /\ game_over = FALSE /\ turn_count = 0 /\ score = 0
    /\ kind \in Kinds
    /\ started = FALSE
    /\ game_info \in [max_turns : {DEFAULT_MAX_TURNS, 0, TurnCap - 1},
                      agent_start_timeout : BOOLEAN, agent_action_timeout : BOOLEAN,
                      agent_end_timeout : BOOLEAN]
    \* NoneIsolator does not read the timeouts: one choice of them stands for all
    /\ (level = "none") =>
          (~ game_info.agent_start_timeout /\ ~ game_info.agent_action_timeout
              /\ ~ game_info.agent_end_timeout)
    /\ pc = "start" /\ result = NewResult /\ raised = "none" /\ nclose = 0
    /\ log = NoLog
    /\ ReplayIdle /\ ExtIdle

RunFrame == UNCHANGED <<tkvars, selvars, clientvars, replayvars, extvars>>
AgentFrame == UNCHANGED <<tkvars, gsvars, selvars, clientvars, runvars, replayvars, extvars>>

Start == RunStart /\ RunFrame
AgentsGameStart == RunGameStart /\ RunFrame
AgentsStarted == RunAgentsStarted /\ RunFrame
GetAction == RunGetAction /\ RunFrame
Turn == RunTurn /\ RunFrame
CheckMaxTurns == RunCheckMaxTurns /\ RunFrame
GameComplete == RunGameComplete /\ RunFrame
Finish == RunFinish /\ RunFrame
AnswerRead == SendAgentMessageRecv /\ AgentFrame
AnswerTimeout == SendAgentMessageTimeout /\ AgentFrame
AgentGetsMessage == \E a \in Agents : AgentHandlerGet(a) /\ AgentFrame
AgentAnswers == \E a \in Agents : AgentHandlerPut(a) /\ AgentFrame
AgentWritesState ==
    \E a \in Agents : AgentCheats(a) /\ UNCHANGED <<tkvars, gsrest, selvars, clientvars, runvars, replayvars, extvars>>

Next ==
    \/ Start \/ AgentsGameStart \/ AgentsStarted
    \/ GetAction \/ Turn \/ CheckMaxTurns \/ GameComplete \/ Finish
    \/ AnswerRead \/ AnswerTimeout \/ AgentGetsMessage \/ AgentAnswers \/ AgentWritesState

Spec == Init /\ [][Next]_vars

(***************************************************************************)
(* Properties of the ticket order and of the scheduler.                    *)
(***************************************************************************)
TicketTuple(t) == <<t.next_time, t.last_time, t.num_moves>>

\* C10: Ticket.is_before is a strict total order on the triples
\* (next_time, last_time, num_moves): it is irreflexive and transitive, of two
\* tickets with different triples exactly one is before the other, and a
\* ticket with a lower next_time is before one with a higher next_time, also
\* when the values are negative.
C10_IsBeforeStrictTotalOrder ==
    cmp.done =>
        /\ ~ cmp.aa
        /\ (cmp.ab /\ cmp.bc) => cmp.ac
        /\ (TicketTuple(tk[1]) # TicketTuple(tk[2])) => (cmp.ab # cmp.ba)
        /\ (TicketTuple(tk[1]) = TicketTuple(tk[2])) => (~ cmp.ab /\ ~ cmp.ba)
        /\ (tk[1].next_time < tk[2].next_time) => cmp.ab

\* Three tickets in a chain, the first with negative fields, that differ
\* only from the second field on, have been compared.
C10_Witness ==
    /\ cmp.done /\ cmp.ab /\ cmp.bc /\ cmp.ac
    /\ tk[1].next_time < 0 /\ tk[1].next_time = tk[2].next_time
    /\ tk[2].last_time = tk[3].last_time /\ tk[2].next_time = tk[3].next_time

\* C8: get_next_agent_index returns a tracked participant whose ticket is
\* minimal (no tracked participant's ticket is before it), and returns -1
\* only when there are no tickets.
C8_NextAgentIsMinimal ==
    (sel # NoSel) =>
        /\ (sel[1] = NoAgent) <=> (DOMAIN tickets = {})
        /\ (sel[1] # NoAgent) =>
              /\ sel[1] \in DOMAIN tickets
              /\ \A o \in DOMAIN tickets : ~ IsBefore(tickets[o], tickets[sel[1]])

\* The call returned a participant that is not the first of the ticket map,
\* from tickets that differ only in num_moves.
C8_Witness ==
    /\ sel # NoSel /\ sel[1] # NoAgent /\ Len(torder) >= 2 /\ sel[1] # torder[1]
    /\ tickets[sel[1]].next_time = tickets[torder[1]].next_time
    /\ tickets[sel[1]].last_time = tickets[torder[1]].last_time

DistinctTickets == \A a, b \in DOMAIN tickets : (a # b) => (tickets[a] # tickets[b])

OrderIndependent ==
    \A ord \in Perms(DOMAIN tickets) : GetNextAgentIndex(tickets, ord) = GetNextAgentIndex(tickets, torder)

EqualDelays == \A a, b \in DOMAIN move_delays : move_delays[a] = move_delays[b]

C11_TicketNext ==
    nx.made =>
        /\ nx.move_delay > 0
        /\ nx.out.next_time = nx.self.next_time + nx.move_delay
        /\ nx.out.last_time = nx.self.next_time
        /\ nx.out.num_moves = nx.self.num_moves + 1
        /\ nx.out.next_time > nx.self.next_time
        /\ tk[1] = nx.self
        /\ nx.before

\* next() has been called on a ticket with a negative next_time and a
\* last_time different from it, with a delay greater than one.
C11_Witness ==
    /\ nx.made /\ nx.move_delay > 1
    /\ nx.self.next_time < 0 /\ nx.self.last_time # nx.self.next_time

\* C12: game_start issues every participant in move_delays the ticket
\* (index + compute_move_delay(index), 0, 0) and then selects the first
\* mover, a participant with a minimal ticket; when all participants have
\* the same move delay, the first mover is the one with the lowest index.
C12_GameStartTickets ==
    [][ (~ started /\ started') =>
          /\ \A a \in DOMAIN move_delays : tickets'[a] = Ticket(a + move_delays[a], 0, 0)
          /\ agent_index' \in DOMAIN tickets'
          /\ \A o \in DOMAIN tickets' : ~ IsBefore(tickets'[o], tickets'[agent_index'])
          /\ EqualDelays => (\A o \in DOMAIN move_delays : agent_index' <= o)
      ]_vars

\* The game has been started with equal delays greater than one, and the
\* lowest index, which is not the first key of the ticket map, moves first.
C12_Witness ==
    /\ started /\ turn_count = 0 /\ EqualDelays
    /\ agent_index = 0 /\ torder[1] # 0
    /\ tickets[0] = Ticket(move_delays[0], 0, 0) /\ move_delays[0] > 1

\* C13: once the game is started every tracked participant has exactly one
\* ticket and the key set of tickets never changes; a turn changes only the
\* ticket of the acting participant, and no participant's next_time or
\* num_moves ever decreases.
C13_TicketsOnlyGrow ==
    /\ [](started => (DOMAIN tickets = DOMAIN move_delays))
    /\ [][ started =>
             /\ DOMAIN tickets' = DOMAIN tickets
             /\ \A a \in DOMAIN tickets :
                   /\ (a # agent_index) => (tickets'[a] = tickets[a])
                   /\ tickets'[a].next_time >= tickets[a].next_time
                   /\ tickets'[a].num_moves >= tickets[a].num_moves
       ]_vars

\* Two turns have been processed, both by the same participant, while
\* another one has not moved yet.
C13_Witness ==
    /\ started /\ turn_count = 2
    /\ \E a, b \in DOMAIN tickets : tickets[a].num_moves = 2 /\ tickets[b].num_moves = 0

\* The number of times a occurs in q.
Count(q, a) == Cardinality({i \in DOMAIN q : q[i] = a})

Faster == CHOOSE a \in DOMAIN move_delays : move_delays[a] = FAST_MOVE_DELAY
Slower == CHOOSE a \in DOMAIN move_delays : move_delays[a] = SLOW_MOVE_DELAY

\* C14: with two participants of move delays 100 and 50 that start from
\* identical tickets, in the first 30 turns the participant of delay 50 acts
\* 20 times and the one of delay 100 acts 10 times; all along, the faster one
\* acts twice for every action of the slower one, up to the two actions of a
\* round that is under way.
C14_TurnFrequency ==
    /\ (turn_count = 30) =>
          /\ Count(rp.acted[1], Faster) = 20
          /\ Count(rp.acted[1], Slower) = 10
    /\ (turn_count <= 30) =>
          /\ Len(rp.acted[1]) = turn_count
          /\ Count(rp.acted[1], Faster) - 2 * Count(rp.acted[1], Slower) \in -2 .. 2

\* Thirty turns have been processed, the slower participant having moved
\* first.
C14_Witness ==
    /\ turn_count = 30 /\ rp.acted[1][1] = Slower
    /\ tickets[Faster].num_moves = tickets[Slower].num_moves + 10

SeqRange(q) == {q[i] : i \in DOMAIN q}

\* The records the current or the last isolator call has built.
Records == SeqRange(ret.records) \cup SeqRange(call.results)

\* The record the game thread built last.
LatestRecord ==
    IF call.phase = "wait" THEN call.results[Len(call.results)] ELSE ret.records[Len(ret.records)]

\* Messages and answers of agent a that are under way.
InFlight(a) == Len(msgq[a]) + (IF hpc[a] = "call" THEN 1 ELSE 0) + Len(actq[a])

\* C1: a timeout is terminal for the whole ProcessIsolator.  The isolator is
\* closed in the step in which the read times out, before the timeout record
\* is returned, and stays closed; from then on no call puts a message on a
\* message queue or reads an action queue, and every call ends at once by
\* raising or by returning an empty result.
C1_TimeoutIsTerminal ==
    [][ /\ timedOut' => (closed' /\ procs' = <<>>)
        /\ timedOut =>
              /\ "put" \notin ev' /\ "get" \notin ev'
              /\ msgq' = msgq /\ actq' = actq
              /\ call'.phase = "idle"
              /\ ("return" \in ev') => (ret'.records = <<>>)
      ]_vars

\* After a timeout, while an answer to the timed-out request sits unread on
\* an action queue, a get_action call has raised.
C1_Witness ==
    /\ timedOut /\ ret.op = "get_action" /\ ret.outcome = "raised"
    /\ \E a \in Agents : actq[a] # <<>>

\* C2: every AgentActionRecord an isolator returns has at most one of
\* crashed and timeout set, and no agent_action when either is set; in the
\* process strategy crashed is set exactly when None was read from the action
\* queue and timeout exactly when the read timed out.
C2_RecordFlags ==
    /\ [](\A r \in Records :
            /\ ~ (r.crashed /\ r.timeout)
            /\ (r.crashed \/ r.timeout) => (r.agent_action = None))
    /\ [][ ("get" \in ev' \/ "timeout" \in ev') =>
              /\ LatestRecord'.agent_index = lastRead'.agent
              /\ LatestRecord'.crashed <=> (lastRead'.got = None)
              /\ LatestRecord'.timeout <=> (lastRead'.got = Empty)
         ]_vars

\* A game_start call has returned a crashed record followed by a timed-out one.
C2_Witness ==
    /\ level = "process" /\ ret.op = "game_start" /\ Len(ret.records) >= 2
    /\ ret.records[1].crashed /\ ret.records[2].timeout

C7_NoneIsolatorCatches ==
    (level = "none") =>
        /\ \A r \in Records : ~ r.timeout
        /\ (ret.outcome = "raised") => (did = <<>>)
        /\ (ret.outcome = "returned") =>
              /\ Len(ret.records) = Len(did)
              /\ \A i \in DOMAIN did :
                    (did[i] = Raise) =>
                        /\ ret.records[i].crashed
                        /\ ret.records[i].agent_action = None
                        /\ ~ ret.records[i].timeout

\* A game_complete call of the NoneIsolator has returned although every agent raised.
C7_Witness ==
    /\ level = "none" /\ ret.op = "game_complete" /\ ret.outcome = "returned"
    /\ Len(did) = Len(infos) /\ \A i \in DOMAIN did : did[i] = Raise

(***************************************************************************)
(* Properties of Game.run.                                                 *)
(***************************************************************************)
Failed(q) == {q[i].agent_index : i \in {j \in DOMAIN q : q[j].crashed \/ q[j].timeout}}

\* C4: Game.run does not raise because a participant crashed or timed out,
\* under either isolation level and with the hooks of the shipped game
\* states: no isolator call made by run() raises, run() raises only for an
\* answer that is neither crashed nor timed out, and when it returns the
\* participants of all crashed or timed-out records of the turns are listed
\* in the result.
C4_RunSurvivesAgentFailures ==
    /\ raised # "isolator"
    /\ (pc = "raised") =>
          /\ raised = "illegal"
          /\ ~ ret.records[1].crashed /\ ~ ret.records[1].timeout
    /\ (pc = "done") =>
          Failed(result.history) \subseteq
              (SeqRange(result.crash_agent_indexes) \cup SeqRange(result.timeout_agent_indexes))

\* A run under process isolation has returned after a crash and a timeout of
\* two participants.
C4_Witness ==
    /\ pc = "done" /\ level = "process" /\ timedOut
    /\ result.crash_agent_indexes # <<>> /\ result.timeout_agent_indexes # <<>>

\* C5: whenever run() has exited, by returning or by raising, it has called
\* isolator.close().
C5_CloseBeforeExit == (pc \in {"done", "raised"}) => (nclose >= 1)

\* C6: when the record get_action returned is neither crashed nor timed out
\* and its action is not legal, process_turn raises ValueError and run() ends
\* with it; the game state is left as it was (tickets, turn_count,
\* agent_index) and the record is not added to the history.
C6_IllegalActionRaises ==
    [][ ( /\ pc = "get_action_wait" /\ pc' # pc
          /\ ret.outcome = "returned"
          /\ ~ ret.records[1].timeout /\ ~ ret.records[1].crashed
          /\ RecordGetAction(ret.records[1]) \notin LegalActions )
        => ( /\ pc' = "raised" /\ raised' = "illegal"
             /\ UNCHANGED gsvars
             /\ result' = result )
      ]_vars

\* run() has raised for an illegal action in its second turn; the history
\* holds the first turn only.
C6_Witness ==
    /\ pc = "raised" /\ raised = "illegal"
    /\ turn_count = 1 /\ Len(result.history) = 1
    /\ RecordGetAction(ret.records[1]) \notin LegalActions

\* The record is of a participant that crashed or timed out.
FailedRecord(r) == r.crashed \/ r.timeout

\* A record game_start returned is of a participant that crashed or timed out.
StartFailed == \E i \in DOMAIN log.start : FailedRecord(log.start[i])

\* The number of calls of isolator.get_action run() has made.
GetActionCalls == Count(log.ops, "get_action")

\* run() makes a call of the isolator operation op in this step.
Calls(op) == Len(log'.ops) = Len(log.ops) + 1 /\ log'.ops[Len(log'.ops)] = op

\* The participant of a failed record has been listed in the result, which
\* process_turn and run() do right before they invoke the state's hook.
HookApplied(r) ==
    IF r.timeout THEN r.agent_index \in SeqRange(result.timeout_agent_indexes)
    ELSE r.agent_index \in SeqRange(result.crash_agent_indexes)

\* C16: when game_start or get_action yields a crashed or timed-out record,
\* the state's hook for it is applied before any further get_action call;
\* as the shipped hooks set game_over, no further get_action call is made:
\* a failure during game_start leads to zero turns, and a crashed or
\* timed-out record in the history is its last element.
C16_FailureEndsGame ==
    /\ []( /\ \A i \in DOMAIN log.start :
                FailedRecord(log.start[i]) => (HookApplied(log.start[i]) /\ game_over)
           /\ StartFailed =>
                (GetActionCalls = 0 /\ result.history = <<>> /\ turn_count = 0)
           /\ \A i \in DOMAIN result.history :
                FailedRecord(result.history[i]) =>
                    (i = Len(result.history) /\ HookApplied(result.history[i]) /\ game_over) )
    /\ [][ Calls("get_action") =>
              /\ ~ game_over
              /\ ~ StartFailed
              /\ \A i \in DOMAIN result.history : ~ FailedRecord(result.history[i])
       ]_vars

\* A run has returned whose second turn ended with a crash.
C16_Witness ==
    /\ pc = "done" /\ Len(result.history) = 2
    /\ result.history[2].crashed /\ result.crash_agent_indexes # <<>>

\* C17: in a run that returns, the isolator operations are called in the
\* order init_agents, game_start, zero or more get_action, game_complete,
\* close, each but get_action exactly once; get_action is only called while
\* the game is not over.
C17_IsolatorCallOrder ==
    /\ []( (pc = "done") =>
              LET n == Len(log.ops) IN
              /\ n >= 4
              /\ log.ops[1] = "init_agents" /\ log.ops[2] = "game_start"
              /\ \A i \in 3 .. (n - 2) : log.ops[i] = "get_action"
              /\ log.ops[n - 1] = "game_complete" /\ log.ops[n] = "close"
              /\ nclose = 1 )
    /\ [][ Calls("get_action") => ~ game_over ]_vars

\* A run with two turns has returned.
C17_Witness == pc = "done" /\ GetActionCalls = 2 /\ Len(log.ops) = 6

C19_TurnCeiling ==
    /\ []( /\ result.game_timeout =>
                /\ game_info.max_turns > 0 /\ turn_count = game_info.max_turns
                /\ game_over /\ agent_index # NoAgent
           /\ (game_info.max_turns <= 0) => ~ result.game_timeout )
    /\ [][ /\ Calls("get_action") =>
                ((game_info.max_turns > 0) => (turn_count < game_info.max_turns))
           /\ (pc = "check_max_turns" /\ pc' # pc) =>
                IF (game_info.max_turns > 0) /\ (turn_count >= game_info.max_turns)
                THEN /\ result'.game_timeout /\ game_over' /\ pc' = "end"
                     /\ result'.timeout_agent_indexes = result.timeout_agent_indexes
                ELSE pc' = "loop" /\ result' = result /\ game_over' = game_over
           /\ (pc = "get_action_wait" /\ pc' = "end") => ~ result'.game_timeout
           /\ (pc = "end") => (result'.game_timeout = result.game_timeout)
       ]_vars

\* A run has returned after the ceiling was reached.
C19_Witness ==
    /\ pc = "done" /\ result.game_timeout
    /\ turn_count = game_info.max_turns /\ result.timeout_agent_indexes = <<>>

\* The participants with a crashed (a timed-out) record in a list of records.
CrashedIn(q) == {q[i].agent_index : i \in {j \in DOMAIN q : q[j].crashed}}
TimedOutIn(q) == {q[i].agent_index : i \in {j \in DOMAIN q : q[j].timeout}}

\* C20 as stated: in the result run() returns, a participant is in
\* crash_agent_indexes (timeout_agent_indexes) if and only if a game_start,
\* get_action or game_complete call of the run returned a crashed (timed-out)
\* record for it.
C20_Original ==
    (pc = "done") =>
        /\ SeqRange(result.crash_agent_indexes) =
              CrashedIn(log.start) \cup CrashedIn(result.history) \cup CrashedIn(result.agent_complete_records)
        /\ SeqRange(result.timeout_agent_indexes) =
              TimedOutIn(log.start) \cup TimedOutIn(result.history) \cup TimedOutIn(result.agent_complete_records)

\* C20 as amended: in the result run() returns, a participant is in
\* crash_agent_indexes (timeout_agent_indexes) if and only if a game_start
\* or get_action call of the run returned a crashed (timed-out) record for
\* it; the records of game_complete are kept in agent_complete_records only.
C20_ResultListsFailures ==
    (pc = "done") =>
        /\ SeqRange(result.crash_agent_indexes) = CrashedIn(log.start) \cup CrashedIn(result.history)
        /\ SeqRange(result.timeout_agent_indexes) = TimedOutIn(log.start) \cup TimedOutIn(result.history)

\* A run has returned in which one participant crashed in game_start and
\* another one crashed in game_complete only.
C20_Witness ==
    /\ pc = "done" /\ CrashedIn(log.start) # {}
    /\ CrashedIn(result.agent_complete_records) \ SeqRange(result.crash_agent_indexes) # {}

(***************************************************************************)
(* Properties of the isolator calls.                                       *)
(***************************************************************************)
\* The participants of a list of records, in order.
Keys(records) == [i \in DOMAIN records |-> records[i].agent_index]

\* A game_start or game_complete call returns in this step.
NotifyReturns ==
    /\ "return" \in ev'
    /\ ret'.op \in {"game_start", "game_complete"}
    /\ ret'.outcome = "returned"

\* C21 as stated: game_start and game_complete return exactly one record for
\* every participant the isolator tracks, in the order of the participants,
\* under both isolators.
C21_Original ==
    [][ NotifyReturns => (Keys(ret'.records) = procs) ]_vars

\* C21 as amended: NoneIsolator returns exactly one record for every
\* participant.  ProcessIsolator does so unless a read times out: then the
\* records are those of the participants up to the one that timed out, whose
\* record is the last, and the participants after it are not notified.
C21_RecordPerParticipant ==
    [][ NotifyReturns =>
          LET keys == Keys(ret'.records)
              n == Len(keys)
          IN  IF \E i \in 1 .. n : ret'.records[i].timeout
              THEN /\ level = "process"
                   /\ n <= Len(procs)
                   /\ keys = SubSeq(procs, 1, n)
                   /\ \A i \in 1 .. (n - 1) : ~ ret'.records[i].timeout
                   /\ \A i \in (n + 1) .. Len(procs) : sent'[procs[i]] = sent[procs[i]]
              ELSE keys = procs
      ]_vars

\* game_complete of a ProcessIsolator has returned a record for every
\* participant, one of them crashed.
C21_Witness ==
    /\ level = "process" /\ ret.op = "game_complete" /\ ret.outcome = "returned"
    /\ Len(ret.records) = NumAgents
    /\ \E i \in DOMAIN ret.records : ret.records[i].crashed

(***************************************************************************)
(* Properties of close() and of reads without a timeout.                   *)
(***************************************************************************)
\* What an isolator holds: everything but the outcome of the last call.
IsolatorHolds == <<level, infos, closed, procs, msgq, actq, hpc, hmsg, call, sent, timedOut, lastRead>>

\* The step is a call of close().
CloseCalled == ncalls' = ncalls + 1 /\ ret'.op = "close"

\* close() has nothing left to release.
AlreadyClosed == IF level = "process" THEN closed ELSE procs = <<>>

\* C24: close() never raises, whether init_agents was called or not; on an
\* isolator that is already closed, by an earlier close() or by a timeout,
\* it changes nothing; and afterwards the isolator is closed in either case.
C24_CloseIdempotent ==
    [][ CloseCalled =>
          /\ ret'.outcome = "returned"
          /\ AlreadyClosed => (IsolatorHolds' = IsolatorHolds)
          /\ AlreadyClosed' ]_vars

\* close() was called on a ProcessIsolator that a timeout had closed before.
C24_Witness ==
    /\ level = "process" /\ timedOut /\ closed
    /\ ret.op = "close" /\ ret.outcome = "returned"

\* C26: while _send_agent_message waits with a timeout <= 0, no step times
\* out or closes the isolator, and the wait ends only with a response read
\* from the action queue of the agent that was asked: an action or None.
C26_NoTimeoutWaitsForAnswer ==
    [][ (call.phase = "wait" /\ ~ call.timed) =>
          /\ "timeout" \notin ev'
          /\ closed' = closed /\ timedOut' = timedOut
          /\ (call' # call) =>
                /\ "get" \in ev'
                /\ lastRead'.agent = call.agent
                /\ lastRead'.got \in Actions \cup {None}
                /\ ~ LatestRecord'.timeout
                /\ LatestRecord'.crashed <=> (lastRead'.got = None) ]_vars

\* A get_action call without a timeout has returned the None an agent put on
\* its action queue after it raised.
C26_Witness ==
    /\ level = "process" /\ ~ timedOut
    /\ ret.op = "get_action" /\ ret.outcome = "returned"
    /\ ~ lastRead.timed /\ lastRead.got = None
    /\ ret.records[1].crashed /\ ~ ret.records[1].timeout
(***************************************************************************)
(* Properties of the suggested seeds.                                      *)
(***************************************************************************)
\* The step is the return of a game_start call with its records.
GameStartReturns == NotifyReturns /\ ret'.op = "game_start"

\* The step puts a start message on the message queue of agent a.
StartPut(a) ==
    /\ Len(msgq'[a]) = Len(msgq[a]) + 1
    /\ msgq'[a][Len(msgq'[a])].type = MESSAGE_TYPE_START

\* A value is drawn from rng only by game_start, once for each agent it
\* notifies, and the value goes to that agent.
DrawsAreSeeds ==
    (rng' # rng) =>
        IF level = "none"
        THEN GameStartReturns /\ rng' = rng + Len(procs)
        ELSE /\ rng' = rng + 1
             /\ call'.op = "game_start"
             /\ StartPut(call'.agent)
             /\ msgq'[call'.agent][Len(msgq'[call'.agent])].seed = rng'

\* C22 as stated: when game_start returns, every participant has been given
\* a value drawn from rng, the k-th participant the k-th value drawn.
C22_Original ==
    [][ GameStartReturns =>
          \A k \in 1 .. Len(procs) : seeds'[procs[k]] = (rng' - Len(procs)) + k ]_vars

\* C22: game_start draws one value from rng for each participant it
\* notifies, in the iteration order of the participants, and nothing else
\* draws from rng; when it returns n records, the participant of the k-th
\* record that is not a timeout has been given the k-th of the n values
\* drawn, under NoneIsolator and under ProcessIsolator alike.  (A timeout
\* ends the loop of ProcessIsolator: the participants after it get no seed.)
C22_SeedPerParticipant ==
    [][ /\ DrawsAreSeeds
        /\ GameStartReturns =>
              LET keys == Keys(ret'.records)
                  n == Len(keys)
              IN  /\ n <= Len(procs) /\ keys = SubSeq(procs, 1, n)
                  /\ \A k \in 1 .. n :
                        ~ ret'.records[k].timeout => seeds'[keys[k]] = (rng' - n) + k
                  /\ (n < Len(procs)) => ret'.records[n].timeout ]_vars

\* game_start of a ProcessIsolator has returned a record for every agent,
\* none of them a timeout, for agents that are not held in index order.
C22_Witness ==
    /\ level = "process" /\ ret.op = "game_start" /\ ret.outcome = "returned"
    /\ Len(ret.records) = NumAgents
    /\ \A k \in 1 .. NumAgents : ~ ret.records[k].timeout
    /\ infos[1] > infos[2]
    /\ seeds[infos[1]] = (rng - NumAgents) + 1 /\ seeds[infos[NumAgents]] = rng
(***************************************************************************)
(* Properties of the end of the agent processes.                           *)
(***************************************************************************)
\* The step runs the body of ProcessIsolator.close(): by a call of close()
\* or by a timeout.
CloseRuns == level = "process" /\ ~ closed /\ closed'

\* The handler of a ends by itself while close() waits: it had ended before,
\* or it answers a complete message.
EndsByItself(a) ==
    \/ hpc[a] = "exit"
    \/ hpc[a] = "call" /\ hmsg[a].type = MESSAGE_TYPE_COMPLETE /\ actq'[a] # actq[a]

RunChangesState ==
    /\ pc \in {"start", "game_start_wait", "get_action_wait", "check_max_turns"}
    /\ pc' # pc
    /\ call.phase = "idle"

MAX_SIZE == 1000000
MIN_HL_INTENSITY == 0
MAX_HL_INTENSITY == 1000

\* Ticket.to_dict: vars(self).copy()
TicketToDict(t) == [next_time |-> t.next_time, last_time |-> t.last_time, num_moves |-> t.num_moves]

\* Ticket.from_dict: cls(**data)
TicketFromDict(data) == Ticket(data.next_time, data.last_time, data.num_moves)

\* Position.__init__, to_dict and from_dict
Position(row, col) == [_row |-> row, _col |-> col, _hash |-> (row * MAX_SIZE) + col]
PositionToDict(p) == [row |-> p._row, col |-> p._col]
PositionFromDict(data) == Position(data.row, data.col)

\* Highlight.__init__ with an intensity that is None or an int, to_dict and from_dict
Highlight(position, intensity) ==
    IF (intensity # <<>>) /\ ((intensity[1] < MIN_HL_INTENSITY) \/ (intensity[1] > MAX_HL_INTENSITY))
    THEN [error |-> "ValueError"]
    ELSE [position |-> position, intensity |-> intensity]
HighlightToDict(h) == [position |-> PositionToDict(h.position), intensity |-> h.intensity]
HighlightFromDict(data) == Highlight(PositionFromDict(data.position), data.intensity)

\* AgentAction.__init__, to_dict and from_dict
AgentAction(action, board_highlights, clear_inputs, training_info, other_info) ==
    [action |-> action, board_highlights |-> board_highlights, clear_inputs |-> clear_inputs,
     training_info |-> training_info, other_info |-> other_info]
AgentActionToDict(aa) ==
    [action |-> aa.action,
     board_highlights |-> [i \in DOMAIN aa.board_highlights |-> HighlightToDict(aa.board_highlights[i])],
     clear_inputs |-> aa.clear_inputs, training_info |-> aa.training_info, other_info |-> aa.other_info]
AgentActionFromDict(data) ==
    AgentAction(data.action,
                [i \in DOMAIN data.board_highlights |-> HighlightFromDict(data.board_highlights[i])],
                data.clear_inputs, data.training_info, data.other_info)

\* edq.util.time.Duration(value)
Duration(value) == value

\* AgentActionRecord.__init__ with all its fields
FullRecord(a, agent_action, duration, crashed, timeout) ==
    [agent_index |-> a, agent_action |-> agent_action, duration |-> duration,
     crashed |-> crashed, timeout |-> timeout]

\* AgentActionRecord.to_dict
RecordToDict(r) ==
    [agent_index |-> r.agent_index,
     agent_action |-> IF r.agent_action # <<>> THEN <<AgentActionToDict(r.agent_action[1])>> ELSE <<>>,
     duration |-> r.duration, crashed |-> r.crashed, timeout |-> r.timeout]

\* A from_dict that takes the defaults of the flags.
RecordFromDictDefaults(data) ==
    FullRecord(data.agent_index,
               IF data.agent_action # <<>> THEN <<AgentActionFromDict(data.agent_action[1])>> ELSE <<>>,
               Duration(data.duration), FALSE, FALSE)

\* AgentActionRecord.from_dict
RecordFromDict(data) ==
    FullRecord(data.agent_index,
               IF data.agent_action # <<>> THEN <<AgentActionFromDict(data.agent_action[1])>> ELSE <<>>,
               Duration(data.duration), data.crashed, data.timeout)

(***************************************************************************)
(* Specification of the conversions: an object is converted to a dict and  *)
(* the dict to an object.                                                  *)
(***************************************************************************)
HighlightRange ==
    {Highlight(Position(row, col), i) :
        row \in 0 .. 1, col \in 0 .. 1, i \in {<<>>, <<MIN_HL_INTENSITY>>, <<MAX_HL_INTENSITY>>}}
AgentActionRange ==
    {AgentAction(action, hl, clear, "{}", "{}") :
        action \in Actions, hl \in {<<>>} \cup {<<h>> : h \in HighlightRange}, clear \in BOOLEAN}
RecordRange ==
    {FullRecord(a, aa, d, crashed, timeout) :
        a \in Agents, aa \in {<<>>} \cup {<<x>> : x \in AgentActionRange}, d \in 0 .. 1,
        crashed \in BOOLEAN, timeout \in BOOLEAN}

InitCodec ==
    /\ TicketIdle /\ GameStateIdle /\ sel = NoSel /\ IsolatorIdle /\ RunIdle /\ ReplayIdle
    /\ InfoIdle /\ BoardIdle /\ AuxIdle /\ LateIdle
    /\ cv \in {[stage |-> "object", class |-> "Ticket", obj |-> t] : t \in TicketRange}
             \cup {[stage |-> "object", class |-> "AgentActionRecord", obj |-> r] : r \in RecordRange}

CodecFrame ==
    UNCHANGED <<tkvars, gsvars, selvars, isovars, rngvars, clientvars, runvars, replayvars,
                agent_infos, info_raised, boardvars, auxvars, latevars>>

TicketToDictCall ==
    /\ cv.stage = "object" /\ cv.class = "Ticket"
    /\ cv' = [stage |-> "dict", class |-> cv.class, obj |-> cv.obj, dict |-> TicketToDict(cv.obj)]
    /\ CodecFrame

TicketFromDictCall ==
    /\ cv.stage = "dict" /\ cv.class = "Ticket"
    /\ cv' = [stage |-> "back", class |-> cv.class, obj |-> cv.obj, dict |-> cv.dict,
              back |-> TicketFromDict(cv.dict)]
    /\ CodecFrame

RecordToDictCall ==
    /\ cv.stage = "object" /\ cv.class = "AgentActionRecord"
    /\ cv' = [stage |-> "dict", class |-> cv.class, obj |-> cv.obj, dict |-> RecordToDict(cv.obj)]
    /\ CodecFrame

RecordFromDictCall ==
    /\ cv.stage = "dict" /\ cv.class = "AgentActionRecord"
    /\ cv' = [stage |-> "back", class |-> cv.class, obj |-> cv.obj, dict |-> cv.dict,
              back |-> RecordFromDict(cv.dict)]
    /\ CodecFrame

NextCodec == TicketToDictCall \/ TicketFromDictCall \/ RecordToDictCall \/ RecordFromDictCall

SpecCodec == InitCodec /\ [][NextCodec]_vars

\* C27: the object from_dict makes of the dict to_dict made of a Ticket or of
\* an AgentActionRecord has the fields of the original: next_time, last_time
\* and num_moves for a Ticket; agent_index, agent_action (all of its fields,
\* or None), duration, crashed and timeout for an AgentActionRecord.
C27_RoundTrip ==
    (cv.stage = "back") =>
        IF cv.class = "Ticket"
        THEN /\ cv.back.next_time = cv.obj.next_time
             /\ cv.back.last_time = cv.obj.last_time
             /\ cv.back.num_moves = cv.obj.num_moves
        ELSE /\ cv.back.agent_index = cv.obj.agent_index
             /\ cv.back.agent_action = cv.obj.agent_action
             /\ cv.back.duration = cv.obj.duration
             /\ cv.back.crashed = cv.obj.crashed
             /\ cv.back.timeout = cv.obj.timeout

\* A record with both flags set, whose agent_action has a highlight that is
\* to be cleared, has been converted to a dict and made again from it.
C27_Witness ==
    /\ cv.stage = "back" /\ cv.class = "AgentActionRecord"
    /\ cv.obj.timeout /\ cv.obj.crashed /\ cv.obj.agent_action # <<>>
    /\ Len(cv.obj.agent_action[1].board_highlights) = 1
    /\ cv.obj.agent_action[1].board_highlights[1].intensity = <<>>
    /\ cv.dict.agent_action[1].board_highlights[1].position = [row |-> 1, col |-> 0]
    /\ cv.back.agent_action[1].board_highlights[1].position._hash = MAX_SIZE
(***************************************************************************)
(* AgentInfo (src/pacai/core/agentinfo.py) and the way its move_delay      *)
(* reaches the scheduler (_parse_agent_infos in src/pacai/core/game.py,    *)
(* GameState.__init__ in src/pacai/core/gamestate.py).                     *)
(***************************************************************************)
DEFAULT_MOVE_DELAY == 100

\* The move delays a caller may ask for.
DelayInputs == -1 .. MaxDelay

\* AgentInfo.__init__ raises ValueError for this move_delay.
AgentInfoRejects(move_delay) == move_delay <= 0

\* agent_info[a].update(AgentInfo(move_delay = v)): the constructor checks
\* the delay, update copies it.
InfoInitUpdate(a, v) ==
    IF AgentInfoRejects(v)
    THEN info_raised' = "ValueError" /\ UNCHANGED agent_infos
    ELSE agent_infos' = [agent_infos EXCEPT ![a] = v] /\ UNCHANGED info_raised

\* agent_info[a].set_from_string('move_delay', str(v)): self.move_delay = int(value)
InfoSetFromString(a, v) ==
    /\ agent_infos' = [agent_infos EXCEPT ![a] = v]
    /\ UNCHANGED info_raised

\* GameState.__init__ with agent_infos: move_delays takes the move_delay of
\* every AgentInfo, in the order of the dict (sorted by _parse_agent_infos).
InfoNewGameState ==
    /\ move_delays' = agent_infos
    /\ mdorder' = [i \in 1 .. NumAgents |-> i - 1]
    /\ UNCHANGED <<tickets, torder, agent_index, last_agent_index, game_over, turn_count,
                   score, kind, started>>

(***************************************************************************)
(* Specification of the making of a game: the AgentInfo of every agent is  *)
(* set, a state is made from them and the game is started and played.      *)
(***************************************************************************)
InitInfo ==
    /\ TicketIdle /\ GameStateIdle /\ sel = NoSel /\ IsolatorIdle /\ RunIdle /\ ReplayIdle
    /\ CodecIdle /\ BoardIdle /\ AuxIdle /\ LateIdle
    /\ agent_infos = [a \in Agents |-> DEFAULT_MOVE_DELAY]
    /\ info_raised = "none"

InfoFrame ==
    UNCHANGED <<tkvars, selvars, isovars, rngvars, clientvars, runvars, replayvars, cv, boardvars, auxvars, latevars>>

\* The infos are still being set: no exception has ended the program and no
\* state has been made.
InfoOpen == info_raised = "none" /\ move_delays = EmptyMap

ParseBaseInfo ==
    /\ InfoOpen
    /\ \E a \in Agents, v \in DelayInputs : InfoInitUpdate(a, v)
    /\ UNCHANGED gsvars /\ InfoFrame

ParseAgentArg ==
    /\ InfoOpen
    /\ \E a \in Agents, v \in DelayInputs : InfoSetFromString(a, v)
    /\ UNCHANGED gsvars /\ InfoFrame

GetInitialState ==
    /\ InfoOpen
    /\ InfoNewGameState
    /\ UNCHANGED <<agent_infos, info_raised>> /\ InfoFrame

InfoGameStart ==
    /\ move_delays # EmptyMap /\ ~ started
    /\ GameStart
    /\ UNCHANGED <<agent_infos, info_raised>> /\ InfoFrame

InfoProcessTurnFull ==
    /\ started /\ ~ game_over /\ turn_count < TurnCap
    /\ \E ends \in BOOLEAN : ProcessTurnFull(ends)
    /\ UNCHANGED <<agent_infos, info_raised>> /\ InfoFrame

NextInfo == ParseBaseInfo \/ ParseAgentArg \/ GetInitialState \/ InfoGameStart \/ InfoProcessTurnFull

SpecInfo == InitInfo /\ [][NextInfo]_vars

\* C29: every move delay the scheduler uses is positive: compute_move_delay
\* is > 0 for every agent of a state, and a ticket that has been advanced
\* has a next_time greater than its last_time.
C29_MoveDelayPositive ==
    \A a \in DOMAIN move_delays :
        /\ ComputeMoveDelay(move_delays, a) > 0
        /\ (a \in DOMAIN tickets /\ tickets[a].num_moves >= 1) =>
              tickets[a].next_time > tickets[a].last_time
(***************************************************************************)
(* Board (src/pacai/core/board.py): the dicts of a board are objects of    *)
(* the heap, and a board holds references to them.                         *)
(***************************************************************************)
MARKER_PELLET == "."
\* Marker(str(agent_index))
AgentMarker(a) == ToString(a)
AgentOf(marker) == CHOOSE a \in Agents : AgentMarker(a) = marker
Markers == {MARKER_PELLET} \cup {AgentMarker(a) : a \in Agents}
\* The positions of a board with one row.
Positions == 1 .. 2

\* A dict without key k, and a dict with key k set to v.
DictDel(d, k) == [x \in (DOMAIN d) \ {k} |-> d[x]]
DictSet(d, k, v) == [x \in (DOMAIN d) \cup {k} |-> IF x = k THEN v ELSE d[x]]

\* The element of a set of one element.
Only(S) == CHOOSE x \in S : TRUE

\* The boards and the dicts they refer to.
World == [boards |-> boards, heap |-> heap]

\* The dicts board b refers to.
NonwallObjectsIn(w, b) == w.heap.nonwall[w.boards[b]._nonwall_objects]
AgentInitialPositionsIn(w, b) == w.heap.initial[w.boards[b]._agent_initial_positions]

\* Board.get, get_marker_positions, get_agent_position,
\* get_agent_initial_position and agent_indexes.
BoardGet(w, b, position) ==
    {m \in DOMAIN NonwallObjectsIn(w, b) : position \in NonwallObjectsIn(w, b)[m]}
GetMarkerPositions(w, b, marker) ==
    IF marker \in DOMAIN NonwallObjectsIn(w, b) THEN NonwallObjectsIn(w, b)[marker] ELSE {}
GetAgentPosition(w, b, a) ==
    LET positions == GetMarkerPositions(w, b, AgentMarker(a))
    IN  IF Cardinality(positions) > 1 THEN "ValueError"
        ELSE IF positions = {} THEN "None"
        ELSE ToString(CHOOSE position \in positions : TRUE)
GetAgentInitialPosition(w, b, a) ==
    IF AgentMarker(a) \in DOMAIN AgentInitialPositionsIn(w, b)
    THEN <<AgentInitialPositionsIn(w, b)[AgentMarker(a)]>> ELSE <<>>
AgentIndexes(w, b) == DOMAIN AgentInitialPositionsIn(w, b)

\* All that board b reports.
ReportIn(w, b) ==
    [get |-> [position \in Positions |-> BoardGet(w, b, position)],
     get_marker_positions |-> [marker \in Markers |-> GetMarkerPositions(w, b, marker)],
     get_agent_position |-> [a \in Agents |-> GetAgentPosition(w, b, a)],
     get_agent_initial_position |-> [a \in Agents |-> GetAgentInitialPosition(w, b, a)],
     agent_indexes |-> AgentIndexes(w, b)]
Report(b) == ReportIn(World, b)

\* Board.copy: copy.copy(self) makes a board with the same references; both
\* boards are marked shallow.
BoardCopyIn(w, b) ==
    [w EXCEPT !.boards = Append([w.boards EXCEPT ![b]._is_shallow = TRUE],
                                [w.boards[b] EXCEPT !._is_shallow = TRUE])]

\* Board._copy_on_write: a shallow board gets a new dict with a copy of every
\* set of positions.
CopyOnWrite(w, b) ==
    IF w.boards[b]._is_shallow
    THEN [boards |-> [w.boards EXCEPT ![b]._nonwall_objects = Len(w.heap.nonwall) + 1,
                                      ![b]._is_shallow = FALSE],
          heap |-> [w.heap EXCEPT !.nonwall = Append(@, NonwallObjectsIn(w, b))]]
    ELSE w

\* Board.remove_agent, for an agent index in 0 .. MAX_AGENTS - 1
RemoveAgentIn(w, b, a) ==
    LET marker == AgentMarker(a)
    IN  Only({[boards |-> cow.boards,
               heap |-> [nonwall |-> [cow.heap.nonwall EXCEPT
                                         ![cow.boards[b]._nonwall_objects] = DictDel(@, marker)],
                         initial |-> [cow.heap.initial EXCEPT
                                         ![cow.boards[b]._agent_initial_positions] = DictDel(@, marker)]]] :
              cow \in {CopyOnWrite(w, b)}})

\* Board.remove_marker
RemoveMarkerIn(w, b, marker, position) ==
    Only({[cow EXCEPT !.heap.nonwall[cow.boards[b]._nonwall_objects] =
              IF marker \in DOMAIN @ THEN DictSet(@, marker, @[marker] \ {position}) ELSE @] :
          cow \in {CopyOnWrite(w, b)}})

\* Board.place_marker
PlaceMarkerIn(w, b, marker, position) ==
    Only({[cow EXCEPT !.heap.nonwall[cow.boards[b]._nonwall_objects] =
              DictSet(@, marker, (IF marker \in DOMAIN @ THEN @[marker] ELSE {}) \cup {position})] :
          cow \in {CopyOnWrite(w, b)}})

\* The calls, made on the boards of the state.
BecomesWorld(w) == boards' = w.boards /\ heap' = w.heap
BoardCopy(b) == BecomesWorld(BoardCopyIn(World, b))
RemoveAgent(b, a) == BecomesWorld(RemoveAgentIn(World, b, a))
RemoveMarker(b, marker, position) == BecomesWorld(RemoveMarkerIn(World, b, marker, position))
PlaceMarker(b, marker, position) == BecomesWorld(PlaceMarkerIn(World, b, marker, position))

(***************************************************************************)
(* Specification of boards: a board is loaded, and boards are copied and   *)
(* written in any order.                                                   *)
(***************************************************************************)
\* The number of calls made on the boards.
MaxBoardOps == 4

InitBoard ==
    /\ TicketIdle /\ GameStateIdle /\ sel = NoSel /\ IsolatorIdle /\ RunIdle /\ ReplayIdle
    /\ CodecIdle /\ InfoIdle /\ AuxIdle /\ LateIdle
    \* a board with every agent on its initial position and one pellet
    /\ \E start \in [Agents -> Positions], pellet \in Positions :
          heap = [nonwall |-> <<[m \in Markers |->
                                   IF m = MARKER_PELLET THEN {pellet}
                                   ELSE {start[AgentOf(m)]}]>>,
                  initial |-> <<[m \in Markers \ {MARKER_PELLET} |-> start[AgentOf(m)]]>>]
    /\ boards = <<[_nonwall_objects |-> 1, _agent_initial_positions |-> 1, _is_shallow |-> FALSE]>>
    /\ bops = 0

BoardFrame ==
    /\ bops' = bops + 1
    /\ UNCHANGED <<tkvars, gsvars, selvars, isovars, rngvars, clientvars, runvars, replayvars,
                   cv, agent_infos, info_raised, auxvars, latevars>>

CallCopy ==
    /\ bops < MaxBoardOps
    /\ \E b \in DOMAIN boards : BoardCopy(b)
    /\ BoardFrame

CallRemoveAgent ==
    /\ bops < MaxBoardOps
    /\ \E b \in DOMAIN boards, a \in Agents : RemoveAgent(b, a)
    /\ BoardFrame

CallRemoveMarker ==
    /\ bops < MaxBoardOps
    /\ \E b \in DOMAIN boards, marker \in Markers, position \in Positions :
          RemoveMarker(b, marker, position)
    /\ BoardFrame

CallPlaceMarker ==
    /\ bops < MaxBoardOps
    /\ \E b \in DOMAIN boards, marker \in Markers, position \in Positions :
          PlaceMarker(b, marker, position)
    /\ BoardFrame

NextBoard == CallCopy \/ CallRemoveAgent \/ CallRemoveMarker \/ CallPlaceMarker

SpecBoard == InitBoard /\ [][NextBoard]_vars

\* A call that writes board b.
WriteOn(b) ==
    \/ \E a \in Agents : RemoveAgent(b, a)
    \/ \E marker \in Markers, position \in Positions :
          RemoveMarker(b, marker, position) \/ PlaceMarker(b, marker, position)

\* C30: a call of place_marker, remove_marker or remove_agent on one board
\* changes nothing of what any other board reports (get,
\* get_marker_positions, get_agent_position, get_agent_initial_position,
\* agent_indexes), and copy changes nothing of what a board reports, along
\* any chain of copies.
C30_CopyOnWrite ==
    [][ /\ \A b \in DOMAIN boards :
              WriteOn(b) => \A c \in (DOMAIN boards) \ {b} : Report(c)' = Report(c)
        /\ \A b \in DOMAIN boards :
              BoardCopy(b) => /\ \A c \in DOMAIN boards : Report(c)' = Report(c)
                              /\ \A new \in {Len(boards) + 1} : Report(new)' = Report(b) ]_vars
(***************************************************************************)
(* Replay (src/pacai/core/game.py, override_args_with_replay and           *)
(* init_from_args): a game is run and its GameResult saved; then the       *)
(* arguments are overridden from the saved result and a second game is     *)
(* run from them.                                                          *)
(***************************************************************************)
\* The keys of the dict _parse_agent_infos makes: sorted(agent_indexes).
SortedAgents == [i \in 1 .. NumAgents |-> i - 1]

\* The agents that have a record in a history.
HistoryAgents(history) == {history[i].agent_index : i \in DOMAIN history}

\* scripted_actions[a]: item.get_action() of the records of agent a, in order.
ScriptedActions(history, a) ==
    LET own == SelectSeq(history, LAMBDA r : r.agent_index = a)
    IN  [i \in DOMAIN own |-> RecordGetAction(own[i])]

\* The move delays of the agent infos of the replay: a scripted agent gets the
\* move delay of the saved info; an agent without a record stays the default
\* AgentInfo that _parse_agent_infos makes.
ReplayMoveDelays(history, delays) ==
    [a \in Agents |-> IF a \in HistoryAgents(history) THEN delays[a] ELSE DEFAULT_MOVE_DELAY]

\* What get_action of the agent of a does in the second game: a
\* ScriptedAgent takes its next action, or STOP when it has none left; the
\* default agent takes one of the legal actions.
ReplayAgentActions(a) ==
    IF a \in rp.named
    THEN {IF rp.scripted[a] = <<>> THEN STOP ELSE Head(rp.scripted[a])}
    ELSE LegalActions

\* The agents that acted, in order.
ActingAgents(history) == [i \in DOMAIN history |-> history[i].agent_index]

\* Turn i of the second game is taken in the state of turn i of the first
\* game, with the same action.
SameTurn(history, i) ==
    /\ Len(history) = i
    /\ i <= Len(rp.original.history)
    /\ ~ FailedRecord(rp.original.history[i])
    /\ \A j \in 1 .. i :
          /\ history[j].agent_index = rp.original.history[j].agent_index
          /\ ~ FailedRecord(history[j])
          /\ RecordGetAction(history[j]) = RecordGetAction(rp.original.history[j])

InitRerun ==
    /\ TicketIdle /\ sel = NoSel /\ ncalls = 0
    /\ level = "none"
    /\ infos = SortedAgents
    /\ closed = FALSE /\ procs = <<>>
    /\ msgq = [a \in Agents |-> <<>>] /\ actq = [a \in Agents |-> <<>>]
    /\ hpc = [a \in Agents |-> "none"] /\ hmsg = [a \in Agents |-> NoMsg]
    /\ call = NoCall /\ ret = NoRet /\ sent = [a \in Agents |-> 0]
    /\ timedOut = FALSE /\ ev = {} /\ lastRead = NoRead /\ did = <<>>
    /\ seeds = [a \in Agents |-> 0] /\ plog = [a \in Agents |-> <<>>]
    /\ rng = 0
    /\ move_delays \in [Agents -> 1 .. MaxDelay]
    /\ mdorder = infos
    /\ tickets = EmptyMap /\ torder = <<>>
    /\ agent_index = NoAgent /\ last_agent_index = NoAgent
    /\ game_over = FALSE /\ turn_count = 0 /\ score = 0
    /\ kind \in Kinds
    /\ started = FALSE
    /\ game_info \in [max_turns : {DEFAULT_MAX_TURNS, 0, TurnCap - 1},
                      agent_start_timeout : {FALSE}, agent_action_timeout : {FALSE},
                      agent_end_timeout : {FALSE}]
    /\ pc = "start" /\ result = NewResult /\ raised = "none" /\ nclose = 0
    /\ log = NoLog
    /\ rp = [game |-> 1, original |-> NewResult, decisions |-> <<>>,
             scripted |-> [a \in Agents |-> <<>>], named |-> {}]
    /\ ExtIdle

RerunFrame == UNCHANGED <<tkvars, selvars, clientvars, extvars>>

\* In the second game no agent method raises in game_start or game_complete.
ReplayNotify == (rp.game = 2) => (\A i \in DOMAIN did' : did'[i] = STOP)

RerunStart == RunStart /\ UNCHANGED rp /\ RerunFrame
RerunGameStart == RunGameStart /\ ReplayNotify /\ UNCHANGED rp /\ RerunFrame
RerunAgentsStarted == RunAgentsStarted /\ UNCHANGED rp /\ RerunFrame

RerunGetAction ==
    /\ RunGetAction
    /\ IF rp.game = 2
       THEN /\ did'[1] \in ReplayAgentActions(agent_index)
            /\ rp' = [rp EXCEPT !.scripted[agent_index] = IF @ = <<>> THEN @ ELSE Tail(@)]
       ELSE UNCHANGED rp
    /\ RerunFrame

\* A turn.  Whether it ends the game is decided by the state and the action:
\* the first game's decision is kept and holds for the same turn of the
\* second game.
RerunTurn ==
    /\ RunTurn
    /\ IF rp.game = 1
       THEN rp' = [rp EXCEPT !.decisions =
                       IF Len(result'.history) > Len(result.history)
                       THEN Append(@, game_over') ELSE @]
       ELSE /\ SameTurn(result'.history, Len(result.history) + 1) =>
                  (game_over' = rp.decisions[Len(result.history) + 1])
            /\ UNCHANGED rp
    /\ RerunFrame

RerunCheckMaxTurns == RunCheckMaxTurns /\ UNCHANGED rp /\ RerunFrame
RerunGameComplete == RunGameComplete /\ ReplayNotify /\ UNCHANGED rp /\ RerunFrame
RerunFinish == RunFinish /\ UNCHANGED rp /\ RerunFrame

\* The saved result of the first game is loaded: override_args_with_replay,
\* then init_from_args makes the game, and run() is entered.
RerunLoad ==
    /\ rp.game = 1
    /\ pc = "done"
    /\ rp' = [game |-> 2, original |-> result, decisions |-> rp.decisions,
              scripted |-> [a \in Agents |-> ScriptedActions(result.history, a)],
              named |-> HistoryAgents(result.history)]
    /\ game_info' = [game_info EXCEPT !.max_turns = Len(result.history)]
    /\ move_delays' = ReplayMoveDelays(result.history, move_delays)
    /\ mdorder' = SortedAgents /\ infos' = SortedAgents
    /\ tickets' = EmptyMap /\ torder' = <<>>
    /\ agent_index' = NoAgent /\ last_agent_index' = NoAgent
    /\ game_over' = FALSE /\ turn_count' = 0 /\ score' = 0 /\ started' = FALSE
    /\ procs' = <<>> /\ ret' = NoRet /\ did' = <<>> /\ ev' = {}
    /\ seeds' = [a \in Agents |-> 0]
    /\ rng' = 0
    /\ pc' = "start" /\ result' = NewResult /\ raised' = "none" /\ nclose' = 0 /\ log' = NoLog
    /\ UNCHANGED <<kind, level, closed, msgq, actq, hpc, hmsg, call, sent, timedOut, lastRead, plog>>
    /\ RerunFrame

NextRerun ==
    \/ RerunStart \/ RerunGameStart \/ RerunAgentsStarted \/ RerunGetAction \/ RerunTurn
    \/ RerunCheckMaxTurns \/ RerunGameComplete \/ RerunFinish \/ RerunLoad

SpecRerun == InitRerun /\ [][NextRerun]_vars

\* The second game has returned its result.
ReplayDone == rp.game = 2 /\ pc = "done"

\* No agent failed in the first game.
CleanOriginal ==
    /\ rp.original.crash_agent_indexes = <<>>
    /\ rp.original.timeout_agent_indexes = <<>>

\* The replay of a game in which no agent failed selects the same agents and
\* ends with the same score.
ReplayOfCleanRun ==
    (ReplayDone /\ CleanOriginal) =>
        /\ ActingAgents(result.history) = ActingAgents(rp.original.history)
        /\ result.score = rp.original.score

\* C28: the game replayed from a saved GameResult selects the same sequence
\* of acting agents and ends with the same score as the game that was saved,
\* whatever that game was.
C28_ReplayReproduces ==
    ReplayDone =>
        /\ ActingAgents(result.history) = ActingAgents(rp.original.history)
        /\ result.score = rp.original.score
(***************************************************************************)
(* PriorityQueue and PriorityQueueWithFunction                             *)
(* (src/pacai/util/containers.py), on the heap of Python's heapq.          *)
(***************************************************************************)
\* Items are 0 .. MaxItem, and at most MaxQueueOps calls are made.
MaxItem == 2
MaxQueueOps == 6
Items == 0 .. MaxItem
\* The values a priority function gives.
Priorities == 0 .. 1

\* pair = (priority, item), and the order of Python's tuples.
Pair(priority, item) == <<priority, item>>
PairLess(x, y) == x[1] < y[1] \/ (x[1] = y[1] /\ x[2] < y[2])

\* heap[pos] for a position counted from 0, and the list with heap[pos] = v.
At(h, pos) == h[pos + 1]
Put(h, pos, v) == [h EXCEPT ![pos + 1] = v]

\* heapq._siftdown(heap, startpos, pos) with newitem on its way up.
RECURSIVE SiftDown(_, _, _, _)
SiftDown(h, startpos, pos, newitem) ==
    IF pos > startpos /\ PairLess(newitem, At(h, (pos - 1) \div 2))
    THEN SiftDown(Put(h, pos, At(h, (pos - 1) \div 2)), startpos, (pos - 1) \div 2, newitem)
    ELSE Put(h, pos, newitem)

\* The loop of heapq._siftup: the smaller child is moved up until a leaf is hit.
RECURSIVE SiftUpLoop(_, _)
SiftUpLoop(h, pos) ==
    LET childpos == 2 * pos + 1
        rightpos == childpos + 1
        child == IF rightpos < Len(h) /\ ~ PairLess(At(h, childpos), At(h, rightpos))
                 THEN rightpos ELSE childpos
    IN  IF childpos < Len(h)
        THEN SiftUpLoop(Put(h, pos, At(h, child)), child)
        ELSE [heap |-> h, pos |-> pos]

\* heapq._siftup(heap, pos)
SiftUp(h, pos) ==
    LET down == SiftUpLoop(h, pos)
    IN  SiftDown(down.heap, pos, down.pos, At(h, pos))

\* A push that appends and does not sift.
HeapPushAppends(h, pair) == Append(h, pair)

\* heapq.heappush
HeapPush(h, pair) == SiftDown(Append(h, pair), 0, Len(h), pair)

\* heapq.heappop on a list that is not empty: what is returned and the list left.
HeapPop(h) ==
    LET lastelt == h[Len(h)]
        rest == SubSeq(h, 1, Len(h) - 1)
    IN  IF rest # <<>>
        THEN [returned |-> rest[1], heap |-> SiftUp(Put(rest, 0, lastelt), 0)]
        ELSE [returned |-> lastelt, heap |-> rest]

InitQueue ==
    /\ TicketIdle /\ GameStateIdle /\ sel = NoSel /\ IsolatorIdle /\ RunIdle /\ ReplayIdle
    /\ CodecIdle /\ InfoIdle /\ BoardIdle /\ UniformIdle /\ LateIdle
    \* PriorityQueueWithFunction(priority_func)
    /\ \E priority_func \in [Items -> Priorities] :
          pq = [stage |-> "made", _items |-> <<>>, _priority_func |-> priority_func,
                pushed |-> <<>>, popped |-> <<>>, drained |-> <<>>, raised |-> "none", ops |-> 0]

QueueFrame ==
    UNCHANGED <<tkvars, gsvars, selvars, isovars, rngvars, clientvars, runvars, replayvars,
                cv, agent_infos, info_raised, boardvars, ue, latevars>>

\* PriorityQueueWithFunction.push(item)
QueuePush ==
    /\ pq.ops < MaxQueueOps
    /\ \E item \in Items :
          LET pair == Pair(pq._priority_func[item], item)
          IN  pq' = [pq EXCEPT !._items = HeapPush(@, pair),
                               !.pushed = Append(@, pair),
                               !.drained = <<>>,
                               !.raised = "none",
                               !.ops = @ + 1]
    /\ QueueFrame

\* PriorityQueue.pop(); heappop of an empty list raises IndexError.
QueuePop ==
    /\ pq.ops < MaxQueueOps
    /\ IF pq._items = <<>>
       THEN pq' = [pq EXCEPT !.raised = "IndexError", !.ops = @ + 1]
       ELSE LET out == HeapPop(pq._items)
            IN  pq' = [pq EXCEPT !._items = out.heap,
                                 !.popped = Append(@, out.returned),
                                 !.drained = Append(@, out.returned),
                                 !.raised = "none",
                                 !.ops = @ + 1]
    /\ QueueFrame

NextQueue == QueuePush \/ QueuePop

SpecQueue == InitQueue /\ [][NextQueue]_vars

\* The number of times v occurs in a sequence.
Occurs(q, v) == Cardinality({i \in DOMAIN q : q[i] = v})

\* pop has returned an item in this step.
Popped == Len(pq'.popped) = Len(pq.popped) + 1

IsolatorOps == {"game_start", "get_action", "game_complete"}

InitUniform ==
    /\ TicketIdle /\ GameStateIdle /\ sel = NoSel /\ IsolatorIdle /\ RunIdle /\ ReplayIdle
    /\ CodecIdle /\ InfoIdle /\ BoardIdle /\ QueueIdle /\ LateIdle
    /\ \E a \in Agents, op \in IsolatorOps :
       \E out \in OutcomesFor(OpMessageType(op)) :
          ue = [stage |-> "called", agent |-> a, op |-> op, out |-> out,
                none |-> <<>>, put |-> <<>>, process |-> <<>>]

UniformFrame ==
    UNCHANGED <<tkvars, gsvars, selvars, isovars, rngvars, clientvars, runvars, replayvars,
                cv, agent_infos, info_raised, boardvars, pq, latevars>>

\* none._call_agent_method returns its record.
UniformNoneCall ==
    /\ ue.stage = "called"
    /\ ue.none = <<>>
    /\ ue' = [ue EXCEPT !.none = <<NoneRecord(ue.agent, ue.out)>>]
    /\ UniformFrame

\* _agent_handler puts the result of process._call_agent_method on the action queue.
UniformHandlerPut ==
    /\ ue.stage = "called"
    /\ ue.put = <<>>
    /\ ue' = [ue EXCEPT !.put = <<HandlerResult(ue.out)>>]
    /\ UniformFrame

\* _send_agent_message reads the action queue and returns its record.
UniformProcessRead ==
    /\ ue.stage = "called"
    /\ ue.put # <<>>
    /\ ue.process = <<>>
    /\ ue' = [ue EXCEPT !.process = <<SendAgentMessageRecord(ue.agent, ue.put[1])>>]
    /\ UniformFrame

NextUniform == UniformNoneCall \/ UniformHandlerPut \/ UniformProcessRead

SpecUniform == InitUniform /\ [][NextUniform]_vars

\* Both isolators have returned their record.
BothReturned == ue.stage = "called" /\ ue.none # <<>> /\ ue.process # <<>>

\* C32: for the same behaviour of the agent method (it returns an action,
\* returns no value, or raises) on a call that does not time out, the
\* records of NoneIsolator and of ProcessIsolator have the same crashed flag
\* and both hold an agent_action or both hold none.
C32_UniformRecords ==
    BothReturned =>
        /\ ue.none[1].crashed = ue.process[1].crashed
        /\ (ue.none[1].agent_action = None) = (ue.process[1].agent_action = None)

\* The same for the agent methods that return an action or raise.
UniformButForNone ==
    (BothReturned /\ ue.out # None) =>
        /\ ue.none[1].crashed = ue.process[1].crashed
        /\ (ue.none[1].agent_action = None) = (ue.process[1].agent_action = None)
(***************************************************************************)
(* The isolator under agent processes that may end inside an agent method, *)
(* with a game thread that goes on whenever it can.                        *)
(***************************************************************************)
\* The process of handler a ends inside the agent method and nothing is put
\* on the action queue: the method raises SystemExit, which the
\* "except Exception" of process._call_agent_method lets through, or the
\* process is killed.
AgentHandlerExits(a) ==
    /\ hpc[a] = "call"
    /\ hpc' = [hpc EXCEPT ![a] = "dead"]
    /\ hmsg' = [hmsg EXCEPT ![a] = NoMsg]
    /\ ev' = {}
    /\ UNCHANGED <<level, infos, closed, procs, msgq, actq, call, ret, sent, timedOut, lastRead, did,
                   seeds, plog, rng>>

HandlerExits ==
    \E a \in Agents : AgentHandlerExits(a) /\ UNCHANGED <<tkvars, gsvars, selvars, clientvars, runvars, replayvars, extvars>>

NextIsoLive == NextIso \/ HandlerExits

\* The read of the action queue returns when there is an answer, and raises
\* Empty when the timeout has passed.
FairnessIso == WF_vars(IsoRecv) /\ WF_vars(IsoTimeout)

SpecIsoLive == InitIso /\ [][NextIsoLive]_vars /\ FairnessIso

\* The game thread is inside _send_agent_message for agent a.
Waiting(a) == call.phase = "wait" /\ call.agent = a

\* Agent a has answered (None if its method raised), its process has ended
\* without an answer, or the call has a timeout.
AnswerOrExitOrTimed(a) ==
    \/ actq[a] # <<>>
    \/ hpc[a] \in {"dead", "exit"}
    \/ call.timed

\* C33: under ProcessIsolator, _send_agent_message returns a record for the
\* addressed agent whenever the agent crashes or its process ends without an
\* answer, whatever the timeout is, and whenever the timeout is positive.
C33_NeverBlocked ==
    \A a \in Agents : (Waiting(a) /\ AnswerOrExitOrTimed(a)) ~> ~ Waiting(a)

\* _send_agent_message returns when the agent has answered or the timeout is
\* positive.
AnsweredOrTimedReturns ==
    \A a \in Agents : (Waiting(a) /\ (actq[a] # <<>> \/ call.timed)) ~> ~ Waiting(a)
(***************************************************************************)
(* The loop of _agent_handler.                                             *)
(***************************************************************************)
\* Handler a has left its loop in this step.
LeavesLoop(a) == hpc[a] # "exit" /\ hpc'[a] = "exit"

\* Handler a has put its answer to the message it works on in this step.
PutsAnswer(a) ==
    /\ hpc[a] = "call"
    /\ Len(actq'[a]) = Len(actq[a]) + 1
    /\ actq'[a][Len(actq'[a])].tag = hmsg[a].tag

MaxSuccOps == 2

TIME_PENALTY == 1
FOOD_POINTS == 10
BOARD_CLEAR_POINTS == 500
LOSE_POINTS == -500

SuccActions == {STOP, "WEST", "EAST"}

\* Position.apply_action on the corridor.
ApplyAction(position, action) ==
    CASE action = "WEST" -> position - 1
      [] action = "EAST" -> position + 1
      [] OTHER -> position

\* The states, the objects they refer to and the boards.
Universe ==
    [states |-> gso.states, lists |-> gso.lists, actions |-> gso.actions,
     delays |-> gso.delays, tickets |-> gso.tickets, boards |-> boards, heap |-> heap]
WorldOf(u) == [boards |-> u.boards, heap |-> u.heap]
WithWorld(u, w) == [u EXCEPT !.boards = w.boards, !.heap = w.heap]

\* What state i reports of itself.
StateViewIn(u, i) ==
    LET s == u.states[i]
    IN  [tickets |-> u.tickets[s.tickets],
         move_delays |-> u.delays[s.move_delays],
         agent_actions |-> [a \in DOMAIN u.actions[s.agent_actions] |->
                               u.lists[u.actions[s.agent_actions][a]]],
         agent_index |-> s.agent_index,
         last_agent_index |-> s.last_agent_index,
         turn_count |-> s.turn_count,
         game_over |-> s.game_over,
         score |-> s.score,
         board |-> ReportIn(WorldOf(u), s.board)]
StateView(i) == StateViewIn(Universe, i)

\* copy.copy(self) alone: a state that refers to the objects of the original.
GameStateCopyShallow(u, i) == [u EXCEPT !.states = Append(@, u.states[i])]

\* GameState.copy: copy.copy(self), then a copy of the board, of agent_actions
\* with each of its lists, of move_delays and of tickets.
GameStateCopy(u, i) ==
    LET s == u.states[i]
        aa == u.actions[s.agent_actions]
        rank(a) == Cardinality({x \in DOMAIN aa : x <= a})
        copies == [k \in 1 .. Cardinality(DOMAIN aa) |->
                      u.lists[aa[CHOOSE a \in DOMAIN aa : rank(a) = k]]]
        w == BoardCopyIn(WorldOf(u), s.board)
    IN  [states |-> Append(u.states,
                       [s EXCEPT !.board = Len(u.boards) + 1,
                                 !.agent_actions = Len(u.actions) + 1,
                                 !.move_delays = Len(u.delays) + 1,
                                 !.tickets = Len(u.tickets) + 1]),
         lists |-> u.lists \o copies,
         actions |-> Append(u.actions, [a \in DOMAIN aa |-> Len(u.lists) + rank(a)]),
         delays |-> Append(u.delays, u.delays[s.move_delays]),
         tickets |-> Append(u.tickets, u.tickets[s.tickets]),
         boards |-> w.boards,
         heap |-> w.heap]

\* The position of the agent whose turn it is on state i.
OldPosition(u, i) ==
    CHOOSE position \in GetMarkerPositions(WorldOf(u), u.states[i].board,
                                           AgentMarker(u.states[i].agent_index)) : TRUE

\* An action the agent of the turn may take on state i: it stays on the corridor.
LegalAction(u, i, action) ==
    /\ u.states[i].agent_index \in Agents
    /\ GetMarkerPositions(WorldOf(u), u.states[i].board,
                          AgentMarker(u.states[i].agent_index)) # {}
    /\ ApplyAction(OldPosition(u, i), action) \in Positions

\* pacman GameState._process_pacman_turn.  w1 is the board after the agent
\* is picked up, w2 after the markers it moves onto are processed, w3 after
\* it is put down.
ProcessPacmanTurn(u, i, action) ==
    LET b == u.states[i].board
        agent_marker == AgentMarker(u.states[i].agent_index)
    IN  Only({
          LET new_position == ApplyAction(old_position, action)
              interaction_markers == IF old_position # new_position
                                     THEN BoardGet(WorldOf(u), b, new_position) ELSE {}
              eats == MARKER_PELLET \in interaction_markers
              died == \E m \in interaction_markers : m # MARKER_PELLET
          IN  Only({Only({Only({
                  LET cleared == eats /\ GetMarkerPositions(w2, b, MARKER_PELLET) = {}
                  IN  [WithWorld(u, w3) EXCEPT
                          !.states[i].score = @ + (IF eats THEN FOOD_POINTS ELSE 0)
                                                + (IF cleared THEN BOARD_CLEAR_POINTS ELSE 0)
                                                + (IF died THEN LOSE_POINTS ELSE 0)
                                                - TIME_PENALTY,
                          !.states[i].game_over = @ \/ cleared \/ died] :
                  w3 \in {IF ~ died THEN PlaceMarkerIn(w2, b, agent_marker, new_position) ELSE w2}}) :
                  w2 \in {IF eats THEN RemoveMarkerIn(w1, b, MARKER_PELLET, new_position) ELSE w1}}) :
                  w1 \in {IF old_position # new_position
                          THEN RemoveMarkerIn(WorldOf(u), b, agent_marker, old_position)
                          ELSE WorldOf(u)}}) :
          old_position \in {OldPosition(u, i)}})

\* pacman GameState._process_ghost_turn, for a ghost that is on the board
ProcessGhostTurn(u, i, action) ==
    LET b == u.states[i].board
        agent_marker == AgentMarker(u.states[i].agent_index)
    IN  Only({
          LET new_position == ApplyAction(old_position, action)
              interaction_markers == IF old_position # new_position
                                     THEN BoardGet(WorldOf(u), b, new_position) ELSE {}
              eaten == AgentMarker(PACMAN_AGENT_INDEX) \in interaction_markers
          IN  Only({Only({Only({
                  [WithWorld(u, w3) EXCEPT
                      !.states[i].score = @ + (IF eaten THEN LOSE_POINTS ELSE 0),
                      !.states[i].game_over = @ \/ eaten] :
                  w3 \in {PlaceMarkerIn(w2, b, agent_marker, new_position)}}) :
                  w2 \in {IF eaten
                          THEN RemoveMarkerIn(w1, b, AgentMarker(PACMAN_AGENT_INDEX), new_position)
                          ELSE w1}}) :
                  w1 \in {IF old_position # new_position
                          THEN RemoveMarkerIn(WorldOf(u), b, agent_marker, old_position)
                          ELSE WorldOf(u)}}) :
          old_position \in {OldPosition(u, i)}})

\* pacman GameState.process_turn
ProcessTurn(u, i, action) ==
    Only({[done EXCEPT !.states[i].score = @ - TIME_PENALTY] :
          done \in {IF u.states[i].agent_index = PACMAN_AGENT_INDEX
                    THEN ProcessPacmanTurn(u, i, action)
                    ELSE ProcessGhostTurn(u, i, action)}})

\* The bookkeeping of process_turn_full on state i, of which process_turn
\* has made done.
Bookkeeping(done, i, action) ==
    LET s == done.states[i]
        a == s.agent_index
        aa == done.actions[s.agent_actions]
        \* a list for an agent that has none
        lists1 == IF a \in DOMAIN aa THEN done.lists ELSE Append(done.lists, <<>>)
        aa1 == IF a \in DOMAIN aa THEN aa ELSE DictSet(aa, a, Len(done.lists) + 1)
    IN  Only({[done EXCEPT
                  !.lists = [lists1 EXCEPT ![aa1[a]] = Append(@, action)],
                  !.actions[s.agent_actions] = aa1,
                  !.tickets[s.tickets] = tk1,
                  !.states[i].last_agent_index = a,
                  !.states[i].agent_index = IF s.game_over THEN NoAgent
                                            ELSE GetNextAgentIndex(tk1.map, tk1.ord),
                  !.states[i].turn_count = @ + 1] :
              tk1 \in {[done.tickets[s.tickets] EXCEPT
                          !.map[a] = TicketNext(@, ComputeMoveDelay(done.delays[s.move_delays], a))]}})

\* process_turn_full past its first check: the turn and the bookkeeping.
TurnAndBookkeeping(u, i, action) ==
    Only({Bookkeeping(done, i, action) : done \in {ProcessTurn(u, i, action)}})

\* A first check that still counts the turn.
ProcessTurnFullCounts(u, i, action) ==
    IF u.states[i].game_over
    THEN [u EXCEPT !.states[i].turn_count = @ + 1]
    ELSE TurnAndBookkeeping(u, i, action)

\* GameState.process_turn_full on state i
ProcessTurnFullOn(u, i, action) ==
    IF u.states[i].game_over
    THEN u
    ELSE TurnAndBookkeeping(u, i, action)

\* A successor made of a copy that shares the objects of the original.
GenerateSuccessorShares(u, i, action) ==
    Only({ProcessTurnFullOn(successor, Len(u.states) + 1, action) :
          successor \in {GameStateCopyShallow(u, i)}})

\* GameState.generate_successor on state i
GenerateSuccessor(u, i, action) ==
    Only({ProcessTurnFullOn(successor, Len(u.states) + 1, action) :
          successor \in {GameStateCopy(u, i)}})

(***************************************************************************)
(* Specification of successors: a pacman state made by game_start, on      *)
(* which generate_successor and process_turn_full are called, as a         *)
(* planning agent does.                                                    *)
(***************************************************************************)
InitSucc ==
    /\ TicketIdle /\ GameStateIdle /\ sel = NoSel /\ IsolatorIdle /\ RunIdle /\ ReplayIdle
    /\ CodecIdle /\ InfoIdle /\ AuxIdle /\ InputIdle
    /\ \E start \in [Agents -> Positions], pellet \in Positions :
          heap = [nonwall |-> <<[m \in Markers |->
                                   IF m = MARKER_PELLET THEN {pellet}
                                   ELSE {start[AgentOf(m)]}]>>,
                  initial |-> <<[m \in Markers \ {MARKER_PELLET} |-> start[AgentOf(m)]]>>]
    /\ boards = <<[_nonwall_objects |-> 1, _agent_initial_positions |-> 1, _is_shallow |-> FALSE]>>
    /\ bops = 0
    /\ \E delays \in [Agents -> 1 .. MaxDelay] :
          LET tks == InitialTickets(EmptyMap, delays)
          IN  gso = [stage |-> "run",
                     states |-> <<[board |-> 1, agent_actions |-> 1, move_delays |-> 1,
                                   tickets |-> 1,
                                   agent_index |-> GetNextAgentIndex(tks, SortedAgents),
                                   last_agent_index |-> NoAgent,
                                   game_over |-> FALSE, score |-> 0, turn_count |-> 0]>>,
                     lists |-> <<>>,
                     actions |-> <<EmptyMap>>,
                     delays |-> <<delays>>,
                     tickets |-> <<[ord |-> SortedAgents, map |-> tks]>>,
                     last |-> [op |-> "game_start", on |-> 1, was_over |-> FALSE],
                     ops |-> 0]

SuccFrame ==
    UNCHANGED <<tkvars, gsvars, selvars, isovars, rngvars, clientvars, runvars, replayvars,
                cv, agent_infos, info_raised, bops, auxvars, inp>>

\* The universe after the call becomes the state.
Becomes(u, op, i) ==
    /\ boards' = u.boards
    /\ heap' = u.heap
    /\ gso' = [stage |-> "run", states |-> u.states, lists |-> u.lists,
               actions |-> u.actions, delays |-> u.delays, tickets |-> u.tickets,
               last |-> [op |-> op, on |-> i, was_over |-> gso.states[i].game_over],
               ops |-> gso.ops + 1]

\* The actions a caller may hand to a call on state i.
ActionsFor(i) ==
    IF gso.states[i].game_over THEN {STOP}
    ELSE {action \in SuccActions : LegalAction(Universe, i, action)}

CallGenerateSuccessor ==
    /\ gso.stage = "run"
    /\ gso.ops < MaxSuccOps
    /\ \E i \in DOMAIN gso.states : \E action \in ActionsFor(i) :
          \E u \in {GenerateSuccessor(Universe, i, action)} :
             Becomes(u, "generate_successor", i)
    /\ SuccFrame

CallProcessTurnFull ==
    /\ gso.stage = "run"
    /\ gso.ops < MaxSuccOps
    /\ \E i \in DOMAIN gso.states : \E action \in ActionsFor(i) :
          \E u \in {ProcessTurnFullOn(Universe, i, action)} :
             Becomes(u, "process_turn_full", i)
    /\ SuccFrame

NextSucc == CallGenerateSuccessor \/ CallProcessTurnFull

SpecSucc == InitSucc /\ [][NextSucc]_vars

\* C35: process_turn_full on a state whose game_over is already true changes
\* nothing of it: its tickets, turn_count, agent_index, last_agent_index,
\* agent_actions, score and board are as before, whether the call is made on
\* the state itself or, by generate_successor, on its copy.
C35_GameOverTurnChangesNothing ==
    [][\A i \in DOMAIN gso.states :
          (gso'.last.on = i /\ gso.states[i].game_over) =>
              /\ StateView(i)' = StateView(i)
              /\ gso'.last.op = "generate_successor" =>
                    \A new \in {Len(gso.states) + 1} : StateView(new)' = StateView(i)]_vars

\* process_turn_full has been called on a finished state that had moves made on it.
C35_Witness ==
    /\ gso.stage = "run"
    /\ gso.last.op = "process_turn_full"
    /\ gso.last.was_over
    /\ gso.states[gso.last.on].turn_count > 0

\* C36: generate_successor returns a new state and leaves the original as it
\* was (tickets, move_delays, agent_actions, agent_index, last_agent_index,
\* turn_count, game_over, score and what the board reports); a turn processed
\* on one state changes no other state, so turns on a successor leave the
\* original alone.
C36_SuccessorLeavesOriginal ==
    [][\A i \in DOMAIN gso.states :
          /\ gso'.last.op = "generate_successor" =>
                /\ Len(gso'.states) = Len(gso.states) + 1
                /\ StateView(i)' = StateView(i)
          /\ (gso'.last.op = "process_turn_full" /\ gso'.last.on # i) =>
                StateView(i)' = StateView(i)]_vars

\* A turn has been processed on a successor, and the successor and the state
\* it was made from differ in their tickets, in their actions and on the board.
C36_Witness ==
    /\ gso.stage = "run"
    /\ Len(gso.states) >= 2
    /\ gso.last.op = "process_turn_full"
    /\ gso.last.on = 2
    /\ ~ gso.last.was_over
    /\ StateView(2).turn_count = 2
    /\ StateView(1).turn_count = 0
    /\ StateView(2).tickets # StateView(1).tickets
    /\ StateView(2).board # StateView(1).board
    /\ StateView(2).agent_actions # StateView(1).agent_actions

(***************************************************************************)
(* The count of turns (SpecSched).                                         *)
(***************************************************************************)
\* The sum of num_moves over the tickets of the dict, from item i on.
RECURSIVE SumMovesFrom(_, _, _)
SumMovesFrom(tks, ord, i) ==
    IF i > Len(ord) THEN 0 ELSE tks[ord[i]].num_moves + SumMovesFrom(tks, ord, i + 1)
SumMoves == SumMovesFrom(tickets, torder, 1)

\* A step that is a turn ending the game.
LastTurn == started /\ ~ game_over /\ game_over'

\* C37: once game_start has issued the tickets of a state with turn_count 0,
\* turn_count equals the sum of num_moves over all tickets after every
\* process_turn_full; and a turn that ends the game still gives the mover its
\* next ticket, adds one to turn_count, sets agent_index to -1 and
\* last_agent_index to the mover.
C37_TurnCountIsSumOfMoves ==
    [][/\ started' => (turn_count = SumMoves)'
       /\ LastTurn =>
             /\ tickets' = [tickets EXCEPT ![agent_index] =
                               Ticket(@.next_time + ComputeMoveDelay(move_delays, agent_index),
                                      @.next_time, @.num_moves + 1)]
             /\ turn_count' = turn_count + 1
             /\ agent_index' = NoAgent
             /\ last_agent_index' = agent_index]_vars

\* A game ended by its third turn, in which every participant has moved.
C37_Witness ==
    /\ started /\ game_over
    /\ turn_count = 3
    /\ agent_index = NoAgent
    /\ last_agent_index \in Agents
    /\ \A a \in DOMAIN tickets : tickets[a].num_moves > 0

(***************************************************************************)
(* Specification of the game that never ends: after game_start, turns are  *)
(* processed for ever, and compute_move_delay gives the mover some         *)
(* positive delay each time (a child computes it from the state: pacman    *)
(* adds SCARED_MOVE_PENALTY while a ghost is scared).                      *)
(*                                                                         *)
(* is_before compares (next_time, last_time, num_moves), and adding the    *)
(* same number to the times of every ticket changes no comparison: the     *)
(* times are kept relative to the least next_time.  num_moves grows        *)
(* without bound and only breaks ties of equal times: it is not followed,  *)
(* and among the tickets with the least times any may be selected          *)
(* (SelectedIsEarliest: the selection of the code is one of them).         *)
(* turn_count is not followed either.                                      *)
(***************************************************************************)
\* The least next_time of the tickets.
LeastTime(tks) ==
    CHOOSE m \in {tks[a].next_time : a \in DOMAIN tks} :
        \A a \in DOMAIN tks : m <= tks[a].next_time

\* The tickets with times relative to the least next_time.
Relative(tks) ==
    [a \in DOMAIN tks |->
        Ticket(tks[a].next_time - LeastTime(tks), tks[a].last_time - LeastTime(tks), 0)]

\* The participants no ticket is before, by the times alone.
Earliest(tks) ==
    {a \in DOMAIN tks : \A b \in DOMAIN tks : ~ IsBeforeNoMoves(tks[b], tks[a])}

\* The selection of get_next_agent_index is among the earliest by the times (SpecSched).
SelectedIsEarliest ==
    (tickets # EmptyMap) => GetNextAgentIndex(tickets, torder) \in Earliest(tickets)

InitLive ==
    /\ TicketIdle
    /\ move_delays \in [Agents -> 1 .. MaxDelay]
    /\ mdorder \in Perms(Agents)
    /\ tickets = EmptyMap /\ torder = <<>>
    /\ agent_index = NoAgent /\ last_agent_index = NoAgent
    /\ game_over = FALSE /\ turn_count = 0 /\ score = 0
    /\ kind = "core"
    /\ started = FALSE
    /\ sel = NoSel
    /\ IsolatorIdle /\ RunIdle /\ ExtIdle /\ ReplayIdle

LiveFrame == UNCHANGED <<tkvars, selvars, isovars, rngvars, clientvars, runvars, replayvars, extvars>>

LiveGameStart ==
    /\ ~ started
    /\ GameStart
    /\ LiveFrame

\* process_turn_full of a turn that does not end the game.
LiveProcessTurnFull ==
    /\ started
    /\ ~ game_over
    /\ agent_index \in DOMAIN tickets
    /\ \E move_delay \in 1 .. MaxDelay :
          LET tks == [tickets EXCEPT ![agent_index] = TicketNext(@, move_delay)]
          IN  /\ tickets' = Relative(tks)
              /\ last_agent_index' = agent_index
              /\ agent_index' \in Earliest(tks)
    /\ UNCHANGED <<move_delays, mdorder, torder, game_over, turn_count, score, kind, started>>
    /\ LiveFrame

NextLive == LiveGameStart \/ LiveProcessTurnFull

\* Game.run calls process_turn_full again as long as the game is not over.
FairnessLive == WF_vars(LiveGameStart) /\ WF_vars(LiveProcessTurnFull)

SpecLive == InitLive /\ [][NextLive]_vars /\ FairnessLive

\* C38: no starvation: in a game that never ends, with positive move delays
\* that may differ from turn to turn, every participant is selected to act
\* again and again.
C38_NoStarvation == \A a \in Agents : []<>(started /\ agent_index = a)

\* The last participant is selected right after a move of the first, whose new
\* ticket is later than its own.
C38_Witness ==
    /\ started
    /\ agent_index = NumAgents - 1
    /\ last_agent_index = 0
    /\ tickets[0].last_time = tickets[NumAgents - 1].next_time
    /\ tickets[0].next_time > tickets[NumAgents - 1].next_time

(***************************************************************************)
(* The user inputs of Game.run (src/pacai/core/game.py:353-395, 444-453):  *)
(* one list per participant, filled from the UI at the start of every      *)
(* iteration of the loop and handed to the agent whose turn it is.         *)
(* An optional AgentAction is a sequence here: <<>> for None.              *)
(***************************************************************************)
\* The UI has at most this many inputs in a game.
MaxInputs == 3

\* The lists of at most n actions.
RECURSIVE ActionLists(_)
ActionLists(n) ==
    IF n = 0 THEN {<<>>}
    ELSE ActionLists(n - 1) \cup {Append(l, x) : l \in {m \in ActionLists(n - 1) : Len(m) = n - 1},
                                                 x \in Actions}

\* AgentActionRecord.get_clear_inputs
GetClearInputs(record) ==
    IF record.agent_action = <<>> THEN FALSE ELSE record.agent_action[1].clear_inputs

\* Game._receive_user_inputs: user_inputs += new_user_inputs, for each list.
ReceiveUserInputs(agent_user_inputs, new_user_inputs) ==
    [a \in DOMAIN agent_user_inputs |-> agent_user_inputs[a] \o new_user_inputs]

\* A clearing that empties every list.
ClearInputsOfAll(agent_user_inputs, a, record) ==
    IF GetClearInputs(record)
    THEN [b \in DOMAIN agent_user_inputs |-> <<>>]
    ELSE agent_user_inputs

\* The check after get_action: agent_user_inputs[state.agent_index] = [].
ClearInputs(agent_user_inputs, a, record) ==
    IF GetClearInputs(record)
    THEN [agent_user_inputs EXCEPT ![a] = <<>>]
    ELSE agent_user_inputs

\* The records get_action may return for agent a: an action with or without
\* clear_inputs, a timeout, a crash.
InputRecords(a) ==
    {AgentActionRecord(a, <<AgentAction(action, <<>>, clear_inputs, <<>>, <<>>)>>, FALSE, FALSE) :
        action \in Actions, clear_inputs \in BOOLEAN}
    \cup {AgentActionRecord(a, <<>>, FALSE, TRUE), AgentActionRecord(a, <<>>, TRUE, FALSE)}

InitInput ==
    /\ TicketIdle
    /\ \E delays \in [Agents -> 1 .. MaxDelay] :
          /\ move_delays = delays
          /\ tickets = InitialTickets(EmptyMap, delays)
    /\ mdorder = SortedAgents /\ torder = SortedAgents
    /\ agent_index = GetNextAgentIndex(tickets, torder)
    /\ last_agent_index = NoAgent
    /\ game_over = FALSE /\ turn_count = 0 /\ score = 0
    /\ kind = "core"
    /\ started = TRUE
    /\ sel = NoSel
    /\ IsolatorIdle /\ RunIdle /\ ReplayIdle
    /\ CodecIdle /\ InfoIdle /\ BoardIdle /\ AuxIdle /\ SuccIdle
    /\ inp = [stage |-> "run",
              pc |-> "receive",
              agent_user_inputs |-> [a \in Agents |-> <<>>],
              record |-> <<>>,
              \* what the agents were handed, and the history of the UI
              given |-> <<>>,
              arrived |-> <<>>,
              cleared_at |-> [a \in Agents |-> 0]]

InputFrame ==
    UNCHANGED <<tkvars, selvars, isovars, rngvars, clientvars, runvars, replayvars,
                cv, agent_infos, info_raised, boardvars, auxvars, gso>>

\* while (not self.check_end(state)): self._receive_user_inputs(agent_user_inputs, ui)
InputReceive ==
    /\ inp.stage = "run" /\ inp.pc = "receive"
    /\ ~ CheckEnd(game_over)
    /\ turn_count < TurnCap
    /\ \E new_user_inputs \in ActionLists(MaxInputs - Len(inp.arrived)) :
          inp' = [inp EXCEPT !.pc = "get_action",
                             !.agent_user_inputs = ReceiveUserInputs(@, new_user_inputs),
                             !.arrived = @ \o new_user_inputs]
    /\ UNCHANGED gsvars
    /\ InputFrame

\* action_record = isolator.get_action(state, agent_user_inputs[state.agent_index], ...)
InputGetAction ==
    /\ inp.stage = "run" /\ inp.pc = "get_action"
    /\ \E record \in InputRecords(agent_index) :
          inp' = [inp EXCEPT !.pc = "clear",
                             !.record = <<record>>,
                             !.given = inp.agent_user_inputs[agent_index]]
    /\ UNCHANGED gsvars
    /\ InputFrame

\* if (action_record.get_clear_inputs()): agent_user_inputs[state.agent_index] = []
InputClear ==
    /\ inp.stage = "run" /\ inp.pc = "clear"
    /\ inp' = [inp EXCEPT !.pc = "turn",
                          !.agent_user_inputs = ClearInputs(@, agent_index, inp.record[1]),
                          !.cleared_at[agent_index] =
                              IF GetClearInputs(inp.record[1]) THEN Len(inp.arrived) ELSE @]
    /\ UNCHANGED gsvars
    /\ InputFrame

\* state = self.process_turn(state, action_record, result, rng)
InputProcessTurn ==
    /\ inp.stage = "run" /\ inp.pc = "turn"
    /\ IF inp.record[1].timeout \/ inp.record[1].crashed
       THEN /\ game_over' = HookGameOver(game_over)
            /\ UNCHANGED <<move_delays, mdorder, tickets, torder, agent_index, last_agent_index,
                           turn_count, score, kind, started>>
       ELSE \E ends \in BOOLEAN : ProcessTurnFull(ends)
    /\ inp' = [inp EXCEPT !.pc = "receive", !.record = <<>>]
    /\ InputFrame

\* check_end(state) holds: run leaves the loop.
InputEnd ==
    /\ inp.stage = "run" /\ inp.pc = "receive"
    /\ CheckEnd(game_over)
    /\ inp' = [inp EXCEPT !.pc = "done"]
    /\ UNCHANGED gsvars
    /\ InputFrame

NextInput == InputReceive \/ InputGetAction \/ InputClear \/ InputProcessTurn \/ InputEnd

SpecInput == InitInput /\ [][NextInput]_vars

\* s is t with something appended.
Extends(s, t) == Len(s) >= Len(t) /\ SubSeq(s, 1, Len(t)) = t

\* The inputs that arrived after participant a's list was last emptied.
SinceCleared(a) == SubSeq(inp.arrived, inp.cleared_at[a] + 1, Len(inp.arrived))

\* C39: every input obtained from the UI is appended, in arrival order, to
\* the list of every participant; a participant's list is emptied only in the
\* step right after its own get_action returned a record with clear_inputs
\* true, and that step leaves the lists of the others as they are; so a
\* participant's list holds every input that arrived since it last cleared it,
\* and that is what its get_action is handed.
C39_InputsBuffered ==
    /\ [](inp.stage = "run" =>
             \A a \in Agents : inp.agent_user_inputs[a] = SinceCleared(a))
    /\ [][inp.stage = "run" =>
             /\ \A a \in Agents :
                   Extends(inp'.arrived, inp.arrived) /\
                   LET new_user_inputs == SubSeq(inp'.arrived, Len(inp.arrived) + 1, Len(inp'.arrived))
                   IN  \/ inp'.agent_user_inputs[a] = inp.agent_user_inputs[a] \o new_user_inputs
                       \/ /\ inp.pc = "clear"
                          /\ agent_index = a
                          /\ inp.record[1].agent_index = a
                          /\ GetClearInputs(inp.record[1])
                          /\ inp'.agent_user_inputs[a] = <<>>
                          /\ \A b \in Agents \ {a} :
                                inp'.agent_user_inputs[b] = inp.agent_user_inputs[b]
             /\ inp'.pc = "clear" => inp'.given = SinceCleared(agent_index)]_vars

\* After a turn, one participant has just cleared its list and another still
\* holds the three inputs that arrived, the first two of them different.
C39_Witness ==
    /\ inp.stage = "run"
    /\ inp.pc = "turn"
    /\ turn_count >= 1
    /\ Len(inp.arrived) = 3
    /\ inp.arrived[1] # inp.arrived[2]
    /\ \E a, b \in Agents :
          /\ a # b
          /\ inp.agent_user_inputs[a] = <<>>
          /\ inp.cleared_at[a] = 3
          /\ inp.agent_user_inputs[b] = inp.arrived
====
